---- MODULE Spec2Model ----
(***************************************************************************)
(* A model of the content-pipeline backend: the narration / production     *)
(* pipeline of execution/research_scriptwriter.py and the authenticated    *)
(* HTTP routes of execution/server.py.                                     *)
(*                                                                         *)
(* Python values are modelled as follows.  A string the program only tests *)
(* for emptiness, prefix and JSON-ness is a sequence of line tokens (see   *)
(* Tokens); a literal message is a one-token sequence.  A dict is a        *)
(* record, `k in d` is `k \in DOMAIN d`, and d.get(k, v) is Get(d, k, v).  *)
(***************************************************************************)
EXTENDS Integers, Sequences, FiniteSets, TLC

VARIABLES
    \* generate_narration
    topic,          \* the topic argument
    raw_response,   \* the model's reply to the narration prompt
    narr_ret,       \* the value generate_narration returned (NotReturned before)
    \* generate_production_table
    beats,          \* narration_json["narration"]
    pc,             \* position of the call: start, single, pool, done
    batches,        \* the batches list
    status,         \* per batch: queued, running, done (the pool's futures)
    replies,        \* per batch: the reply the model gave to its call
    batch_results,  \* the batch_results dict, as (key, value) pairs in insertion order
    ret,            \* the value generate_production_table returned
    model_calls,    \* the calls of generate_content made for it so far
    \* the HTTP server
    user_docs,        \* Firestore users/<uid>: the saved gemini_api_key ("" = none)
    dossiers,         \* Firestore users/<uid>/dossiers: the uids that have one
    env_key,          \* os.getenv("GEMINI_API_KEY") of the server ("" = unset)
    tmp_dir,          \* .tmp/production_table_*.json, oldest modification first
    files,            \* the files under generated_images/, _audio/, _videos/
    video_operations, \* the keys of _video_operations
    request,          \* the request handled last
    response,         \* its response
    effects,          \* what handling it did: model calls and writes
    \* direct calls of the library functions
    fn_call,          \* the call made last: the function, its arguments and what
                      \* the external service did during it
    fn_ret,           \* what it returned, or the exception it raised
    started,          \* the operation names the video service has issued
    \* POST /api/visuals/generate-batch-images
    scenes,           \* the scenes submitted
    img_pc,           \* position of the handler: start, pool, done
    img_status,       \* per scene: queued, running, done (the pool's futures)
    img_ext,          \* per scene: what the image model did for it
    results,          \* the results list, in the order the futures complete
    img_ret,          \* the response
    \* concurrent polls of one video operation
    poll_pc,          \* per request thread: its position in poll_video_generation
    poll_op,          \* per thread: operation.done of its local `operation`
    poll_answers,     \* the dicts the polls have returned, in order of return
    veo_done          \* the video service has finished the operation

nvars == <<topic, raw_response, narr_ret>>
pvars == <<beats, pc, batches, status, replies, batch_results, ret, model_calls>>
svars == <<user_docs, dossiers, env_key, tmp_dir, files, video_operations,
           request, response, effects>>
cvars == <<fn_call, fn_ret, started>>
ivars == <<scenes, img_pc, img_status, img_ext, results, img_ret>>
tvars == <<poll_pc, poll_op, poll_answers, veo_done>>
vars == <<topic, raw_response, narr_ret,
          beats, pc, batches, status, replies, batch_results, ret, model_calls,
          user_docs, dossiers, env_key, tmp_dir, files, video_operations,
          request, response, effects,
          fn_call, fn_ret, started,
          scenes, img_pc, img_status, img_ext, results, img_ret,
          poll_pc, poll_op, poll_answers, veo_done>>

NotReturned == [pending |-> TRUE]

(***************************************************************************)
(* Strings as line tokens.                                                 *)
(*   fence  a line that starts with three backticks                        *)
(*   obj    a line holding one complete JSON object                        *)
(*   arr    a line holding one complete JSON array                         *)
(*   text   a line of prose (no JSON, no backticks, no "Error:" prefix)    *)
(*   err    a line that starts with "Error:"                               *)
(*   ws     a line of whitespace only                                      *)
(***************************************************************************)
Tokens == {"fence", "obj", "arr", "text", "err", "ws"}

MaxReplyLines == 3

RECURSIVE SeqsUpTo(_, _)
SeqsUpTo(S, n) ==
    IF n = 0 THEN {<<>>}
    ELSE LET shorter == SeqsUpTo(S, n - 1)
         IN  shorter \cup {Append(s, x) : s \in {t \in shorter : Len(t) = n - 1}, x \in S}

Replies == SeqsUpTo(Tokens, MaxReplyLines)

Get(d, k, default) == IF k \in DOMAIN d THEN d[k] ELSE default

\* str.startswith(prefix) for the two prefixes the program tests
StartsWith(s, tok) == Len(s) > 0 /\ s[1] = tok

\* str.strip(): whitespace is removed from both ends
RECURSIVE LStrip(_)
LStrip(s) == IF Len(s) > 0 /\ s[1] = "ws" THEN LStrip(Tail(s)) ELSE s

RECURSIVE RStrip(_)
RStrip(s) ==
    IF Len(s) > 0 /\ s[Len(s)] = "ws" THEN RStrip(SubSeq(s, 1, Len(s) - 1)) ELSE s

Strip(s) == RStrip(LStrip(s))

\* "\n".join(text.split("\n")[1:-1])
DropFirstAndLastLine(s) == SubSeq(s, 2, Len(s) - 1)

NonBlank(s) == SelectSeq(s, LAMBDA t : t /= "ws")

\* json.loads(text): one JSON document, whitespace allowed around it.
\* `obj` is the dict an "obj" line denotes, `arr` the list an "arr" line denotes.
json_loads(text, obj, arr) ==
    LET doc == NonBlank(text)
    IN  IF doc = <<"obj">> THEN [ok |-> TRUE, isdict |-> TRUE, value |-> obj]
        ELSE IF doc = <<"arr">> THEN [ok |-> TRUE, isdict |-> FALSE, value |-> arr]
        ELSE [ok |-> FALSE, exc |-> "JSONDecodeError"]

_parse_json_response(raw, obj, arr) ==
    IF raw = <<>> THEN [ok |-> FALSE, exc |-> "ValueError"]
    ELSE LET text == Strip(raw)
             body == IF StartsWith(text, "fence") THEN DropFirstAndLastLine(text) ELSE text
         IN  json_loads(body, obj, arr)

(***************************************************************************)
(* generate_narration                                                      *)
(***************************************************************************)
Topics == {<<"text">>, <<"err">>}

\* what the JSON lines of a narration reply denote
NarrationObject == [title |-> <<"text">>, narration |-> <<>>]
NarrationArray == <<[act |-> "Act 1", beat |-> 1]>>

EmptyNarrationMsg == <<"Gemini returned an empty response for narration.">>
NarrationParseMsg == <<"Could not parse Phase 1 narration as JSON.">>

\* mutant: a reply that does not parse is reported as an error
generate_narration_NoFallback(t, raw) ==
    IF raw = <<>> \/ StartsWith(raw, "err")
    THEN [error |-> IF raw /= <<>> THEN raw ELSE EmptyNarrationMsg]
    ELSE LET parsed == _parse_json_response(raw, NarrationObject, NarrationArray)
         IN  IF parsed.ok THEN [success |-> TRUE, narration |-> parsed.value]
             ELSE [error |-> NarrationParseMsg]

generate_narration(t, raw) ==
    IF raw = <<>> \/ StartsWith(raw, "err")
    THEN [error |-> IF raw /= <<>> THEN raw ELSE EmptyNarrationMsg]
    ELSE LET parsed == _parse_json_response(raw, NarrationObject, NarrationArray)
         IN  IF parsed.ok THEN [success |-> TRUE, narration |-> parsed.value]
             ELSE IF parsed.exc = "JSONDecodeError"
             THEN [success |-> TRUE,
                   narration |-> [title |-> t, raw_text |-> raw,
                                  parse_error |-> NarrationParseMsg]]
             ELSE [raised |-> parsed.exc]

(***************************************************************************)
(* generate_production_table                                               *)
(***************************************************************************)
BEATS_PER_BATCH == 8
MAX_CONCURRENT_BATCHES == 3

Title == <<"text">>

\* Group beats by act: the acts dict, as (act_name, act_beats) entries in
\* insertion order
RECURSIVE GroupByAct(_, _)
GroupByAct(bs, acts) ==
    IF bs = <<>> THEN acts
    ELSE LET beat == Head(bs)
             act_name == Get(beat, "act", "Unknown")
             known == {k \in DOMAIN acts : acts[k].act_name = act_name}
             acts1 == IF known = {}
                      THEN Append(acts, [act_name |-> act_name, act_beats |-> <<>>])
                      ELSE acts
             k == CHOOSE j \in DOMAIN acts1 : acts1[j].act_name = act_name
         IN  GroupByAct(Tail(bs),
                        [acts1 EXCEPT ![k].act_beats = Append(@, beat)])

\* mutant: the slice is one beat too long, act_beats[i:i + BEATS_PER_BATCH + 1]
RECURSIVE SubBatches_LongSlice(_, _)
SubBatches_LongSlice(act_beats, i) ==
    IF i >= Len(act_beats) THEN <<>>
    ELSE LET hi == IF i + BEATS_PER_BATCH + 1 < Len(act_beats)
                   THEN i + BEATS_PER_BATCH + 1 ELSE Len(act_beats)
         IN  <<SubSeq(act_beats, i + 1, hi)>>
             \o SubBatches_LongSlice(act_beats, i + BEATS_PER_BATCH)

\* [act_beats[i:i + BEATS_PER_BATCH] for i in range(0, len(act_beats), BEATS_PER_BATCH)]
RECURSIVE SubBatches(_, _)
SubBatches(act_beats, i) ==
    IF i >= Len(act_beats) THEN <<>>
    ELSE LET hi == IF i + BEATS_PER_BATCH < Len(act_beats)
                   THEN i + BEATS_PER_BATCH ELSE Len(act_beats)
         IN  <<SubSeq(act_beats, i + 1, hi)>> \o SubBatches(act_beats, i + BEATS_PER_BATCH)

\* Build batches from acts (split large acts into sub-batches)
RECURSIVE BuildBatches(_)
BuildBatches(acts) ==
    IF acts = <<>> THEN <<>>
    ELSE LET act_beats == Head(acts).act_beats
             these == IF Len(act_beats) > BEATS_PER_BATCH
                      THEN SubBatches(act_beats, 0)
                      ELSE <<act_beats>>
         IN  these \o BuildBatches(Tail(acts))

\* Small narrations: single call
IsSingleCall(bs) == Len(bs) <= BEATS_PER_BATCH + 2

\* what the JSON lines of a production reply denote: the model answers the
\* prompt it was sent, one shot per beat of the narration in the prompt
ProductionObject(narration_json) ==
    LET bs == narration_json.narration
    IN  [title |-> narration_json.title,
         style_summary |-> <<"style", ToString(bs[1].beat)>>,
         shots |-> [i \in DOMAIN bs |-> [shot_of_beat |-> bs[i].beat]],
         continuity_notes |-> <<[note_from_beat |-> bs[1].beat]>>,
         production_notes |-> [challenging_shots |-> <<[hard_beat |-> bs[Len(bs)].beat]>>]]
ProductionArray(narration_json) ==
    [i \in DOMAIN narration_json.narration |->
        [shot_of_beat |-> narration_json.narration[i].beat]]

EmptyProductionMsg == <<"Gemini returned an empty response for production table.">>
ProductionParseMsg(batch_label) == <<"Could not parse production JSON">> \o batch_label

\* A list has no .get: production_data.get("shots", []) raises AttributeError
_generate_single_batch(narration_json, raw, batch_label) ==
    IF raw = <<>> \/ StartsWith(raw, "err")
    THEN [error |-> IF raw /= <<>> THEN raw ELSE EmptyProductionMsg]
    ELSE LET parsed == _parse_json_response(raw, ProductionObject(narration_json),
                                            ProductionArray(narration_json))
         IN  IF parsed.ok
             THEN IF parsed.isdict
                  THEN [success |-> TRUE, production_table |-> parsed.value]
                  ELSE [raised |-> "AttributeError"]
             ELSE IF parsed.exc = "JSONDecodeError"
             THEN [success |-> TRUE,
                   production_table |-> [title |-> Get(narration_json, "title", <<"Untitled">>),
                                         raw_text |-> raw,
                                         parse_error |-> ProductionParseMsg(batch_label)]]
             ELSE [raised |-> parsed.exc]

BatchLabel(batch_idx, n) == <<"batch", ToString(batch_idx), ToString(n)>>

process_batch(batch_idx, batch_beats, n, raw) ==
    LET batch_narration == [title |-> Title, hook_type |-> <<>>, narration |-> batch_beats]
        result == _generate_single_batch(batch_narration, raw, BatchLabel(batch_idx, n))
    IN  IF "raised" \in DOMAIN result THEN result
        ELSE IF "error" \in DOMAIN result
        THEN [batch_idx |-> batch_idx, error |-> result.error]
        ELSE LET pt == Get(result, "production_table", [none |-> TRUE])
             IN  [batch_idx |-> batch_idx,
                  shots |-> Get(pt, "shots", <<>>),
                  continuity_notes |-> Get(pt, "continuity_notes", <<>>),
                  challenging_shots |->
                      Get(Get(pt, "production_notes", [none |-> TRUE]), "challenging_shots", <<>>),
                  style_summary |-> Get(pt, "style_summary", <<>>)]

\* batch_results[key] = value
DictSet(d, key, value) ==
    IF \E k \in DOMAIN d : d[k].key = key
    THEN [k \in DOMAIN d |-> IF d[k].key = key THEN [key |-> key, value |-> value] ELSE d[k]]
    ELSE Append(d, [key |-> key, value |-> value])

DictGet(d, key) == d[CHOOSE k \in DOMAIN d : d[k].key = key].value

DictKeys(d) == [k \in DOMAIN d |-> d[k].key]

\* the body of `for future in as_completed(...)` for one finished future
RecordCompletion(d, batch_idx, outcome) ==
    IF "raised" \in DOMAIN outcome
    THEN DictSet(d, batch_idx, [batch_idx |-> batch_idx, error |-> <<outcome.raised>>])
    ELSE DictSet(d, outcome.batch_idx, outcome)

\* sorted(keys)
RECURSIVE Sorted(_)
Sorted(keys) ==
    IF keys = <<>> THEN <<>>
    ELSE LET m == CHOOSE i \in DOMAIN keys : \A j \in DOMAIN keys : keys[i] <= keys[j]
             rest == [j \in 1..(Len(keys) - 1) |-> IF j < m THEN keys[j] ELSE keys[j + 1]]
         IN  <<keys[m]>> \o Sorted(rest)

\* mutant: the dict is walked in insertion order, without sorted()
MergeOrder_Unsorted(d) == DictKeys(d)

MergeOrder(d) == Sorted(DictKeys(d))

\* Reconstruct in order: the loop over MergeOrder, acc = the four accumulators
RECURSIVE Reconstruct(_, _, _)
Reconstruct(d, order, acc) ==
    IF order = <<>> THEN acc
    ELSE LET batch_idx == Head(order)
             result == DictGet(d, batch_idx)
         IN  IF "error" \in DOMAIN result
             THEN Reconstruct(d, Tail(order), acc)
             ELSE Reconstruct(d, Tail(order),
                    [all_shots |-> acc.all_shots \o Get(result, "shots", <<>>),
                     all_continuity |->
                        acc.all_continuity \o Get(result, "continuity_notes", <<>>),
                     all_challenging |->
                        acc.all_challenging \o Get(result, "challenging_shots", <<>>),
                     style_summary |-> IF batch_idx = 1
                                       THEN Get(result, "style_summary", <<>>)
                                       ELSE acc.style_summary])

AllFailedMsg == <<"All batches failed to produce shots.">>

\* mutant: a result without any shot is returned as a success
MergedResult_SuccessWithoutShots(d) ==
    LET acc == Reconstruct(d, MergeOrder(d),
                           [all_shots |-> <<>>, all_continuity |-> <<>>,
                            all_challenging |-> <<>>, style_summary |-> <<>>])
    IN  [success |-> TRUE,
         production_table |->
            [title |-> Title,
             style_summary |-> acc.style_summary,
             total_shots |-> Len(acc.all_shots),
             shots |-> acc.all_shots,
             continuity_notes |-> acc.all_continuity,
             production_notes |-> [challenging_shots |-> acc.all_challenging]]]

MergedResult(d) ==
    LET acc == Reconstruct(d, MergeOrder(d),
                           [all_shots |-> <<>>, all_continuity |-> <<>>,
                            all_challenging |-> <<>>, style_summary |-> <<>>])
    IN  IF acc.all_shots = <<>> THEN [error |-> AllFailedMsg]
        ELSE [success |-> TRUE,
              production_table |->
                 [title |-> Title,
                  style_summary |-> acc.style_summary,
                  total_shots |-> Len(acc.all_shots),
                  shots |-> acc.all_shots,
                  continuity_notes |-> acc.all_continuity,
                  production_notes |-> [challenging_shots |-> acc.all_challenging]]]

NotCalled == <<"(not called yet)">>

NoBeatsMsg == <<"No narration beats found. Generate narration first.">>

Running == {i \in DOMAIN status : status[i] = "running"}
Queued == {i \in DOMAIN status : status[i] = "queued"}

\* mutant: a pool without max_workers
PoolHasIdleWorker_Unbounded == TRUE

\* ThreadPoolExecutor(max_workers=MAX_CONCURRENT_BATCHES): a work item starts
\* only on a thread that is not running another
PoolHasIdleWorker == Cardinality(Running) < MAX_CONCURRENT_BATCHES

\* the call up to the fan-out: the guards, the grouping and the submissions
Start ==
    /\ pc = "start"
    /\ IF beats = <<>>
       THEN /\ pc' = "done"
            /\ ret' = [error |-> NoBeatsMsg]
            /\ UNCHANGED <<batches, status, replies>>
       ELSE IF IsSingleCall(beats)
       THEN /\ pc' = "single"
            /\ UNCHANGED <<batches, status, replies, ret>>
       ELSE /\ pc' = "pool"
            /\ batches' = BuildBatches(GroupByAct(beats, <<>>))
            /\ status' = [i \in DOMAIN batches' |-> "queued"]
            /\ replies' = [i \in DOMAIN batches' |-> NotCalled]
            /\ UNCHANGED ret
    /\ UNCHANGED <<beats, batch_results, model_calls>>
    /\ UNCHANGED <<nvars, svars, cvars, ivars, tvars>>

\* Small narrations: the one call of _generate_single_batch and the return
SingleCall(raw) ==
    /\ pc = "single"
    /\ pc' = "done"
    /\ replies' = <<raw>>
    /\ ret' = _generate_single_batch([title |-> Title, narration |-> beats], raw, <<>>)
    /\ model_calls' = model_calls + 1
    /\ UNCHANGED <<beats, batches, status, batch_results>>
    /\ UNCHANGED <<nvars, svars, cvars, ivars, tvars>>

\* a pool thread takes the oldest queued work item
WorkerStart ==
    /\ pc = "pool"
    /\ Queued /= {}
    /\ PoolHasIdleWorker
    /\ LET i == CHOOSE q \in Queued : \A r \in Queued : q <= r
       IN  status' = [status EXCEPT ![i] = "running"]
    /\ UNCHANGED <<beats, pc, batches, replies, batch_results, ret, model_calls>>
    /\ UNCHANGED <<nvars, svars, cvars, ivars, tvars>>

\* mutant: a batch whose call gave an error is put back in the queue
WorkerFinish_RetriesFailed(i, raw) ==
    /\ pc = "pool"
    /\ i \in Running
    /\ status' = [status EXCEPT ![i] = IF (raw = <<>> \/ StartsWith(raw, "err"))
                                          /\ model_calls < 2 * Len(batches)
                                       THEN "queued" ELSE "done"]
    /\ replies' = [replies EXCEPT ![i] = raw]
    /\ model_calls' = model_calls + 1
    /\ batch_results' =
          IF status'[i] = "queued" THEN batch_results
          ELSE RecordCompletion(batch_results, i,
                                process_batch(i, batches[i], Len(batches), raw))
    /\ UNCHANGED <<beats, pc, batches, ret>>
    /\ UNCHANGED <<nvars, svars, cvars, ivars, tvars>>

\* process_batch(i, ...) makes its one call of the model and returns or raises,
\* and as_completed hands its future to the collecting loop
WorkerFinish(i, raw) ==
    /\ pc = "pool"
    /\ i \in Running
    /\ status' = [status EXCEPT ![i] = "done"]
    /\ replies' = [replies EXCEPT ![i] = raw]
    /\ model_calls' = model_calls + 1
    /\ batch_results' =
          RecordCompletion(batch_results, i,
                           process_batch(i, batches[i], Len(batches), raw))
    /\ UNCHANGED <<beats, pc, batches, ret>>
    /\ UNCHANGED <<nvars, svars, cvars, ivars, tvars>>

\* leaving the `with` block (shutdown(wait=True)), the merge and the return
Merge ==
    /\ pc = "pool"
    /\ \A i \in DOMAIN status : status[i] = "done"
    /\ pc' = "done"
    /\ ret' = MergedResult(batch_results)
    /\ UNCHANGED <<beats, batches, status, replies, batch_results, model_calls>>
    /\ UNCHANGED <<nvars, svars, cvars, ivars, tvars>>

Narrate ==
    /\ narr_ret = NotReturned
    /\ narr_ret' = generate_narration(topic, raw_response)
    /\ UNCHANGED <<topic, raw_response>>
    /\ UNCHANGED <<pvars, svars, cvars, ivars, tvars>>

(***************************************************************************)
(* The HTTP server.  A request is [route, auth, arg, ext]: auth is the     *)
(* Authorization header split at "Bearer " (<<>> = no header), arg is the  *)
(* one field of the body or path the handler's guards test ("" = absent),  *)
(* and ext is what the external services do while it is handled.  S is the *)
(* stored state a handler can touch: S.users and S.dossiers in Firestore,  *)
(* S.tmp, S.files and S.ops on the server.  A handler yields the status    *)
(* code, the JSON body, the state it leaves and the effects it had.        *)
(***************************************************************************)
Uids == {"u1", "u2"}

Out(code, body, S, fx) == [code |-> code, body |-> body, S |-> S, fx |-> fx]

\* auth.verify_id_token: raises unless the token is a user's ID token
verify_id_token(id_token) ==
    IF id_token = "tok-u1" THEN [ok |-> TRUE, uid |-> "u1"]
    ELSE IF id_token = "tok-u2" THEN [ok |-> TRUE, uid |-> "u2"]
    ELSE [ok |-> FALSE]

\* mutant: a token that fails verification is let through as the first user
require_auth_NoReject(req, S) ==
    IF ~StartsWith(req.auth, "Bearer ")
    THEN [ok |-> FALSE,
          out |-> Out(401, [error |-> "Missing or invalid Authorization header"], S, {})]
    ELSE LET id_token == IF Len(req.auth) >= 2 THEN req.auth[2] ELSE ""
             decoded == verify_id_token(id_token)
             uid == IF decoded.ok THEN decoded.uid ELSE "u1"
             saved == S.users[uid]
         IN  [ok |-> TRUE, uid |-> uid,
              api_key |-> IF saved /= "" THEN saved ELSE env_key]

\* the decorator up to `return f(*args, **kwargs)`: either the 401 response,
\* or g.uid and g.api_key for the view function
require_auth(req, S) ==
    IF ~StartsWith(req.auth, "Bearer ")
    THEN [ok |-> FALSE,
          out |-> Out(401, [error |-> "Missing or invalid Authorization header"], S, {})]
    ELSE LET id_token == IF Len(req.auth) >= 2 THEN req.auth[2] ELSE ""
             decoded == verify_id_token(id_token)
         IN  IF ~decoded.ok
             THEN [ok |-> FALSE,
                   out |-> Out(401, [error |-> "Invalid auth token"], S, {})]
             ELSE LET uid == decoded.uid
                      saved == S.users[uid]
                  IN  [ok |-> TRUE, uid |-> uid,
                       api_key |-> IF saved /= "" THEN saved ELSE env_key]

\* get_client: the key passed in, else the server's; raises when there is none
HasClient(api_key) == api_key /= "" \/ env_key /= ""

\* a call of the model API with that key: it is made once a client exists
ModelFx(api_key) == IF HasClient(api_key) THEN {"model_call"} ELSE {}
ModelOk(api_key, ext) == HasClient(api_key) /\ ext = "ok"

save_api_key(req, uid, api_key, ext, S) ==
    IF req.arg = "" THEN Out(400, [error |-> "API key is required"], S, {})
    ELSE IF ext = "fail" THEN Out(500, [error |-> "exception"], S, {})
    ELSE Out(200, [success |-> TRUE],
             [S EXCEPT !.users[uid] = req.arg], {"firestore_write"})

check_api_key(req, uid, api_key, ext, S) ==
    Out(200, [has_key |-> api_key /= ""], S, {})

generate_image_route(req, uid, api_key, ext, S) ==
    IF req.arg = "" THEN Out(400, [error |-> "Prompt is required"], S, {})
    ELSE IF ~ModelOk(api_key, ext)
    THEN Out(500, [error |-> "Error"], S, ModelFx(api_key))
    ELSE Out(200, [image_url |-> "/generated/image_0.png"], S,
             {"model_call", "file_write"})

generate_tts_route(req, uid, api_key, ext, S) ==
    IF req.arg = "" THEN Out(400, [error |-> "Text is required"], S, {})
    ELSE IF ~ModelOk(api_key, ext)
    THEN Out(500, [error |-> "Error"], S, ModelFx(api_key))
    ELSE Out(200, [audio_url |-> "/audio/tts.wav"], S, {"model_call", "file_write"})

analyze_style_images_route(req, uid, api_key, ext, S) ==
    IF req.arg = "" THEN Out(400, [error |-> "At least one image is required"], S, {})
    ELSE IF ~ModelOk(api_key, ext)
    THEN Out(500, [error |-> "Error"], S, ModelFx(api_key))
    ELSE Out(200, [success |-> TRUE, style_analysis |-> req.arg], S, {"model_call"})

analyze_style_text_route(req, uid, api_key, ext, S) ==
    IF req.arg = "" THEN Out(400, [error |-> "Style description is required"], S, {})
    ELSE IF ~ModelOk(api_key, ext)
    THEN Out(500, [error |-> "Error"], S, ModelFx(api_key))
    ELSE Out(200, [success |-> TRUE, style_analysis |-> req.arg], S, {"model_call"})

list_templates(req, uid, api_key, ext, S) ==
    Out(200, [templates |-> "all"], S, {})

run_research(req, uid, api_key, ext, S) ==
    IF req.arg = "" THEN Out(400, [error |-> "Topic is required"], S, {})
    ELSE IF ~ModelOk(api_key, ext)
    THEN Out(500, [error |-> "Error"], S, ModelFx(api_key))
    ELSE Out(200, [success |-> TRUE, dossier |-> req.arg],
             [S EXCEPT !.dossiers = @ \cup {uid}],
             {"model_call", "file_write", "firestore_write"})

list_dossiers(req, uid, api_key, ext, S) ==
    IF ext = "fail" THEN Out(200, [dossiers |-> <<>>], S, {})
    ELSE Out(200, [dossiers |-> IF uid \in S.dossiers THEN <<"a1">> ELSE <<>>], S, {})

get_dossier(req, uid, api_key, ext, S) ==
    IF ext = "fail" THEN Out(500, [error |-> "exception"], S, {})
    ELSE IF ~(uid \in S.dossiers /\ req.arg = "a1")
    THEN Out(404, [error |-> "Dossier not found"], S, {})
    ELSE Out(200, [topic |-> "a1"], S, {})

poll_research(req, uid, api_key, ext, S) ==
    IF req.arg = "" THEN Out(400, [error |-> "interaction_id is required"], S, {})
    ELSE IF ~HasClient(api_key) \/ ext = "fail"
    THEN Out(500, [error |-> "Error"], S, ModelFx(api_key))
    ELSE IF ext = "pending"
    THEN Out(200, [status |-> "in_progress"], S, {"model_call"})
    ELSE Out(200, [status |-> "completed",
                   dossier |-> IF ext = "ok" THEN req.arg ELSE ""],
             [S EXCEPT !.dossiers = @ \cup {uid}],
             {"model_call", "file_write", "firestore_write"})

suggest_titles(req, uid, api_key, ext, S) ==
    IF req.arg = "" THEN Out(400, [error |-> "Topic is required"], S, {})
    ELSE IF ~ModelOk(api_key, ext)
    THEN Out(500, [error |-> "Error"], S, ModelFx(api_key))
    ELSE Out(200, [success |-> TRUE, titles |-> <<req.arg>>], S, {"model_call"})

auto_suggest_tone_route(req, uid, api_key, ext, S) ==
    IF req.arg = "" THEN Out(400, [error |-> "Selected title is required"], S, {})
    ELSE Out(200, [success |-> TRUE,
                   suggested_tone |-> IF ModelOk(api_key, ext)
                                      THEN "suggested" ELSE "Conversational"],
             S, ModelFx(api_key))

generate_script_route(req, uid, api_key, ext, S) ==
    IF req.arg = "" THEN Out(400, [error |-> "Topic is required"], S, {})
    ELSE IF ~ModelOk(api_key, ext)
    THEN Out(500, [error |-> "Error"], S, ModelFx(api_key))
    ELSE Out(200, [success |-> TRUE, narration |-> req.arg], S,
             {"model_call", "file_write"})

regenerate_beat_route(req, uid, api_key, ext, S) ==
    IF req.arg = "" THEN Out(400, [error |-> "Narration is required"], S, {})
    ELSE IF ~ModelOk(api_key, ext)
    THEN Out(500, [error |-> "Error"], S, ModelFx(api_key))
    ELSE Out(200, [success |-> TRUE, beats |-> <<req.arg>>], S, {"model_call"})

\* open(path, "w") in .tmp: the file is the newest, whether or not it existed
WriteTmp(tmp, name, content) ==
    Append(SelectSeq(tmp, LAMBDA f : f.name /= name), [name |-> name, content |-> content])

generate_production_table_route(req, uid, api_key, ext, S) ==
    IF req.arg = ""
    THEN Out(400, [error |-> "Narration is required. Generate narration first."], S, {})
    ELSE IF ~ModelOk(api_key, ext)
    THEN Out(500, [error |-> "Error"], S, ModelFx(api_key))
    ELSE LET result == [success |-> TRUE, production_table |-> [title |-> req.arg]]
         IN  Out(200, result,
                 [S EXCEPT !.tmp = WriteTmp(@, req.arg, result)],
                 {"model_call", "file_write"})

get_latest_production_table(req, uid, api_key, ext, S) ==
    IF S.tmp = <<>>
    THEN Out(404, [error |-> "No production table found. Generate one in Phase 3 first."],
             S, {})
    ELSE LET data == S.tmp[Len(S.tmp)].content
         IN  Out(200, [success |-> TRUE, production_table |-> data.production_table], S, {})

SceneImage(scene_id) == "generated_images/scene_" \o scene_id
SceneVideo(scene_id) == "generated_videos/scene_" \o scene_id

\* gemini_client.generate_scene_image: the dict it returns and the files it leaves
generate_scene_image(scene_id, api_key, ext, S) ==
    IF HasClient(api_key) /\ ext = "empty"
    THEN [result |-> [error |-> "No image generated for scene " \o scene_id],
          S |-> S, fx |-> {"model_call"}]
    ELSE IF ~ModelOk(api_key, ext)
    THEN [result |-> [error |-> "Error"], S |-> S, fx |-> ModelFx(api_key)]
    ELSE [result |-> [success |-> TRUE, image_url |-> SceneImage(scene_id),
                      scene_id |-> scene_id],
          S |-> [S EXCEPT !.files = @ \cup {SceneImage(scene_id)}],
          fx |-> {"model_call", "file_write"}]

\* mutant: an image already on disk is served again instead of generated
visuals_generate_image_Cached(req, uid, api_key, ext, S) ==
    IF req.arg = "" THEN Out(400, [error |-> "Prompt is required"], S, {})
    ELSE IF SceneImage(req.arg) \in S.files
    THEN Out(200, [success |-> TRUE, image_url |-> SceneImage(req.arg),
                   scene_id |-> req.arg], S, {})
    ELSE LET g == generate_scene_image(req.arg, api_key, ext, S)
         IN  IF "error" \in DOMAIN g.result
             THEN Out(500, [error |-> g.result.error], g.S, g.fx)
             ELSE Out(200, g.result, g.S, g.fx)

visuals_generate_image(req, uid, api_key, ext, S) ==
    IF req.arg = "" THEN Out(400, [error |-> "Prompt is required"], S, {})
    ELSE LET g == generate_scene_image(req.arg, api_key, ext, S)
         IN  IF "error" \in DOMAIN g.result
             THEN Out(500, [error |-> g.result.error], g.S, g.fx)
             ELSE Out(200, g.result, g.S, g.fx)

visuals_generate_batch_images(req, uid, api_key, ext, S) ==
    IF req.arg = "" THEN Out(400, [error |-> "No scenes provided"], S, {})
    ELSE LET g == generate_scene_image(req.arg, api_key, ext, S)
         IN  Out(200, [results |-> <<g.result>>], g.S, g.fx)

OperationName(scene_id) == "operations/" \o scene_id

\* gemini_client.start_video_generation; op_name is operation.name, the name
\* the service gives the operation it starts
start_video_generation(op_name, scene_id, api_key, ext, S) ==
    IF ~ModelOk(api_key, ext)
    THEN [result |-> [error |-> "Error"], S |-> S, fx |-> ModelFx(api_key)]
    ELSE [result |-> [operation_name |-> op_name,
                      scene_id |-> scene_id, status |-> "in_progress"],
          S |-> [S EXCEPT !.ops = @ \cup {op_name}],
          fx |-> {"model_call", "ops_write"}]

visuals_start_animation(req, uid, api_key, ext, S) ==
    IF req.arg = "" THEN Out(400, [error |-> "scene_id is required"], S, {})
    ELSE IF SceneImage(req.arg) \notin S.files
    THEN Out(404, [error |-> "Image file not found"], S, {})
    ELSE LET v == start_video_generation(OperationName(req.arg), req.arg, api_key, ext, S)
         IN  IF "error" \in DOMAIN v.result
             THEN Out(500, [error |-> v.result.error], v.S, v.fx)
             ELSE Out(200, v.result, v.S, v.fx)

\* mutant: a finished operation is left in the map
poll_video_generation_KeepsFinished(operation_name, scene_id, api_key, ext, S) ==
    IF ~HasClient(api_key)
    THEN [result |-> [status |-> "failed", error |-> "exception", scene_id |-> scene_id],
          S |-> S, fx |-> {}]
    ELSE IF operation_name \notin S.ops
    THEN [result |-> [error |-> "Operation not found. Server may have restarted."],
          S |-> S, fx |-> {}]
    ELSE IF ext = "fail"
    THEN [result |-> [status |-> "failed", error |-> "exception", scene_id |-> scene_id],
          S |-> S, fx |-> {"model_call"}]
    ELSE IF ext = "pending"
    THEN [result |-> [status |-> "in_progress", scene_id |-> scene_id],
          S |-> S, fx |-> {"model_call", "ops_write"}]
    ELSE IF ext = "ok"
    THEN [result |-> [status |-> "completed", video_url |-> SceneVideo(scene_id),
                      scene_id |-> scene_id],
          S |-> [S EXCEPT !.files = @ \cup {SceneVideo(scene_id)}],
          fx |-> {"model_call", "ops_write", "file_write"}]
    ELSE [result |-> [status |-> "failed", error |-> "no video was returned",
                      scene_id |-> scene_id],
          S |-> S,
          fx |-> {"model_call", "ops_write"}]

\* gemini_client.poll_video_generation
poll_video_generation(operation_name, scene_id, api_key, ext, S) ==
    IF ~HasClient(api_key)
    THEN [result |-> [status |-> "failed", error |-> "exception", scene_id |-> scene_id],
          S |-> S, fx |-> {}]
    ELSE IF operation_name \notin S.ops
    THEN [result |-> [error |-> "Operation not found. Server may have restarted."],
          S |-> S, fx |-> {}]
    ELSE IF ext = "fail"
    THEN [result |-> [status |-> "failed", error |-> "exception", scene_id |-> scene_id],
          S |-> S, fx |-> {"model_call"}]
    ELSE IF ext = "pending"
    THEN [result |-> [status |-> "in_progress", scene_id |-> scene_id],
          S |-> S, fx |-> {"model_call", "ops_write"}]
    ELSE IF ext = "ok"
    THEN [result |-> [status |-> "completed", video_url |-> SceneVideo(scene_id),
                      scene_id |-> scene_id],
          S |-> [S EXCEPT !.ops = @ \ {operation_name},
                          !.files = @ \cup {SceneVideo(scene_id)}],
          fx |-> {"model_call", "ops_write", "file_write"}]
    ELSE [result |-> [status |-> "failed", error |-> "no video was returned",
                      scene_id |-> scene_id],
          S |-> [S EXCEPT !.ops = @ \ {operation_name}],
          fx |-> {"model_call", "ops_write"}]

\* the body carries operation_name; scene_id is the scene it was started for
visuals_poll_animation(req, uid, api_key, ext, S) ==
    IF req.arg = "" THEN Out(400, [error |-> "operation_name is required"], S, {})
    ELSE LET v == poll_video_generation(OperationName(req.arg), req.arg, api_key, ext, S)
         IN  IF Get(v.result, "status", "") = "failed"
             THEN Out(500, v.result, v.S, v.fx)
             ELSE Out(200, v.result, v.S, v.fx)

visuals_start_batch_animation(req, uid, api_key, ext, S) ==
    IF req.arg = "" THEN Out(400, [error |-> "No scenes provided"], S, {})
    ELSE IF SceneImage(req.arg) \notin S.files
    THEN Out(200, [operations |-> <<[error |-> "Image not found", scene_id |-> req.arg]>>],
             S, {})
    ELSE LET v == start_video_generation(OperationName(req.arg), req.arg, api_key, ext, S)
         IN  Out(200, [operations |-> <<v.result>>], v.S, v.fx)

download_all_assets(req, uid, api_key, ext, S) ==
    Out(200, [zip |-> S.files], S, {})

ApiRoutes ==
    {"/api/save-api-key", "/api/check-api-key", "/api/generate-image",
     "/api/generate-tts", "/api/analyze-style-images", "/api/analyze-style-text",
     "/api/templates", "/api/research", "/api/dossiers", "/api/dossiers/<dossier_id>",
     "/api/research/poll", "/api/suggest-titles", "/api/auto-suggest-tone",
     "/api/generate-script", "/api/regenerate-beat", "/api/generate-production-table",
     "/api/latest-production-table", "/api/visuals/generate-image",
     "/api/visuals/generate-batch-images", "/api/visuals/start-animation",
     "/api/visuals/poll-animation", "/api/visuals/start-batch-animation",
     "/api/visuals/download-all"}

\* the URL map: the view function each /api rule is bound to
View(req, uid, api_key, ext, S) ==
    CASE req.route = "/api/save-api-key" -> save_api_key(req, uid, api_key, ext, S)
      [] req.route = "/api/check-api-key" -> check_api_key(req, uid, api_key, ext, S)
      [] req.route = "/api/generate-image" -> generate_image_route(req, uid, api_key, ext, S)
      [] req.route = "/api/generate-tts" -> generate_tts_route(req, uid, api_key, ext, S)
      [] req.route = "/api/analyze-style-images" ->
            analyze_style_images_route(req, uid, api_key, ext, S)
      [] req.route = "/api/analyze-style-text" ->
            analyze_style_text_route(req, uid, api_key, ext, S)
      [] req.route = "/api/templates" -> list_templates(req, uid, api_key, ext, S)
      [] req.route = "/api/research" -> run_research(req, uid, api_key, ext, S)
      [] req.route = "/api/dossiers" -> list_dossiers(req, uid, api_key, ext, S)
      [] req.route = "/api/dossiers/<dossier_id>" -> get_dossier(req, uid, api_key, ext, S)
      [] req.route = "/api/research/poll" -> poll_research(req, uid, api_key, ext, S)
      [] req.route = "/api/suggest-titles" -> suggest_titles(req, uid, api_key, ext, S)
      [] req.route = "/api/auto-suggest-tone" ->
            auto_suggest_tone_route(req, uid, api_key, ext, S)
      [] req.route = "/api/generate-script" -> generate_script_route(req, uid, api_key, ext, S)
      [] req.route = "/api/regenerate-beat" -> regenerate_beat_route(req, uid, api_key, ext, S)
      [] req.route = "/api/generate-production-table" ->
            generate_production_table_route(req, uid, api_key, ext, S)
      [] req.route = "/api/latest-production-table" ->
            get_latest_production_table(req, uid, api_key, ext, S)
      [] req.route = "/api/visuals/generate-image" ->
            visuals_generate_image(req, uid, api_key, ext, S)
      [] req.route = "/api/visuals/generate-batch-images" ->
            visuals_generate_batch_images(req, uid, api_key, ext, S)
      [] req.route = "/api/visuals/start-animation" ->
            visuals_start_animation(req, uid, api_key, ext, S)
      [] req.route = "/api/visuals/poll-animation" ->
            visuals_poll_animation(req, uid, api_key, ext, S)
      [] req.route = "/api/visuals/start-batch-animation" ->
            visuals_start_batch_animation(req, uid, api_key, ext, S)
      [] req.route = "/api/visuals/download-all" ->
            download_all_assets(req, uid, api_key, ext, S)

\* a request to an /api rule: every one of them is bound to a view function
\* wrapped in @require_auth
Dispatch(req, ext, S) ==
    LET g == require_auth(req, S)
    IN  IF ~g.ok THEN g.out ELSE View(req, g.uid, g.api_key, ext, S)

NoRequest == [route |-> "", auth |-> <<>>, arg |-> "", ext |-> ""]
NoResponse == [code |-> 0, body |-> [none |-> TRUE]]

Stored == [users |-> user_docs, dossiers |-> dossiers,
           tmp |-> tmp_dir, files |-> files, ops |-> video_operations]

\* the server handles one request
HandleRequest(req) ==
    LET out == Dispatch(req, req.ext, Stored)
    IN  /\ request = NoRequest
        /\ request' = req
        /\ response' = [code |-> out.code, body |-> out.body]
        /\ effects' = out.fx
        /\ user_docs' = out.S.users
        /\ dossiers' = out.S.dossiers
        /\ tmp_dir' = out.S.tmp
        /\ files' = out.S.files
        /\ video_operations' = out.S.ops
        /\ UNCHANGED env_key
        /\ UNCHANGED <<nvars, pvars, cvars, ivars, tvars>>

\* the response is sent and the server waits for the next request
SendResponse ==
    /\ request /= NoRequest
    /\ request' = NoRequest
    /\ response' = NoResponse
    /\ effects' = {}
    /\ UNCHANGED <<user_docs, dossiers, env_key, tmp_dir, files, video_operations>>
    /\ UNCHANGED <<nvars, pvars, cvars, ivars, tvars>>

AuthHeaders ==
    {<<>>, <<"Basic ", "tok-u1">>, <<"Bearer ">>, <<"Bearer ", "expired">>,
     <<"Bearer ", "tok-u1">>, <<"Bearer ", "tok-u2">>}

\* the body field or path segment the route reads
ArgsOf(route) ==
    IF route = "/api/dossiers/<dossier_id>" THEN {"a1", "a2"} ELSE {"", "a1"}

\* what the external service called can do: answer, fail, and for the two
\* polled jobs be unfinished or finish without a result
ExtOf(route) ==
    IF route \in {"/api/research/poll", "/api/visuals/poll-animation"}
    THEN {"ok", "fail", "pending", "empty"}
    ELSE {"ok", "fail"}

Requests ==
    UNION {[route : {r}, auth : AuthHeaders, arg : ArgsOf(r), ext : ExtOf(r)] :
              r \in ApiRoutes}

(***************************************************************************)
(* Inputs.  A narration is written act by act: a sequence of runs, each a  *)
(* number of consecutive beats with one value of the "act" key (or without *)
(* the key).  Beats are numbered 1.. in narration order.                   *)
(***************************************************************************)
Acts == {"Act 1", "Act 2", "Unknown"}
NoAct == "(no act key)"
RunLengths == {1, 3, 9}
MaxRuns == 3

Runs == [act : Acts \cup {NoAct}, n : RunLengths]

RECURSIVE Expand(_, _)
Expand(runs, first) ==
    IF runs = <<>> THEN <<>>
    ELSE LET r == Head(runs)
         IN  [i \in 1..r.n |-> IF r.act = NoAct THEN [beat |-> first + i - 1]
                               ELSE [beat |-> first + i - 1, act |-> r.act]]
             \o Expand(Tail(runs), first + r.n)

Narrations == {Expand(runs, 1) : runs \in SeqsUpTo(Runs, MaxRuns)}

\* the narrations sent through the pool: none, single-call ones (3 and 10
\* beats), and batched ones of 2, 3 and 4 batches, one with an act that resumes
PoolNarrations ==
    {Expand(runs, 1) : runs \in
        {<<>>,
         <<[act |-> "Act 1", n |-> 3]>>,
         <<[act |-> "Act 1", n |-> 9], [act |-> NoAct, n |-> 1]>>,
         <<[act |-> "Act 1", n |-> 9], [act |-> "Act 1", n |-> 3]>>,
         <<[act |-> "Act 1", n |-> 3], [act |-> "Act 2", n |-> 9], [act |-> "Act 1", n |-> 1]>>,
         <<[act |-> "Act 1", n |-> 9], [act |-> NoAct, n |-> 9]>>}}

\* the replies the model gives to a production prompt
ProductionReplies ==
    {<<>>, <<"err">>, <<"obj">>, <<"fence", "obj", "fence">>, <<"text">>, <<"arr">>}

PIdle ==
    /\ beats = <<>>
    /\ pc = "idle"
    /\ batches = <<>>
    /\ status = <<>>
    /\ replies = <<>>
    /\ batch_results = <<>>
    /\ ret = NotReturned
    /\ model_calls = 0

PStart(inputs) ==
    /\ beats \in inputs
    /\ pc = "start"
    /\ batches = <<>>
    /\ status = <<>>
    /\ replies = <<>>
    /\ batch_results = <<>>
    /\ ret = NotReturned
    /\ model_calls = 0

SIdle ==
    /\ user_docs = [u \in Uids |-> ""]
    /\ dossiers = {}
    /\ env_key = ""
    /\ tmp_dir = <<>>
    /\ files = {}
    /\ video_operations = {}
    /\ request = NoRequest
    /\ response = NoResponse
    /\ effects = {}

IIdle ==
    /\ scenes = <<>>
    /\ img_pc = "idle"
    /\ img_status = <<>>
    /\ img_ext = <<>>
    /\ results = <<>>
    /\ img_ret = NotReturned

TIdle ==
    /\ poll_pc = <<>>
    /\ poll_op = <<>>
    /\ poll_answers = <<>>
    /\ veo_done = FALSE

CIdle ==
    /\ fn_call = [fn |-> ""]
    /\ fn_ret = NotReturned
    /\ started = {}

NIdle ==
    /\ topic = <<"text">>
    /\ raw_response = <<>>
    /\ narr_ret = [idle |-> TRUE]

\* generate_narration applied to every reply
InitNarration ==
    /\ topic \in Topics
    /\ raw_response \in Replies
    /\ narr_ret = NotReturned
    /\ PIdle
    /\ SIdle
    /\ CIdle
    /\ TIdle
    /\ IIdle

NextNarration == Narrate

SpecNarration == InitNarration /\ [][NextNarration]_vars

\* the batching of generate_production_table applied to every narration
InitBatching == NIdle /\ PStart(Narrations) /\ SIdle /\ CIdle /\ TIdle /\ IIdle

NextBatching == Start

SpecBatching == InitBatching /\ [][NextBatching]_vars

\* generate_production_table with its thread pool
Init == NIdle /\ PStart(PoolNarrations) /\ SIdle /\ CIdle /\ TIdle /\ IIdle

Next ==
    \/ Start
    \/ \E raw \in ProductionReplies : SingleCall(raw)
    \/ WorkerStart
    \/ \E i \in DOMAIN status, raw \in ProductionReplies : WorkerFinish(i, raw)
    \/ Merge

Spec == Init /\ [][Next]_vars

\* the server: a fresh process (nothing in .tmp, no files, no operations),
\* with or without a server-side GEMINI_API_KEY
InitServer ==
    /\ NIdle
    /\ PIdle
    /\ user_docs = [u \in Uids |-> ""]
    /\ dossiers = {}
    /\ env_key \in {"", "server-key"}
    /\ tmp_dir = <<>>
    /\ files = {}
    /\ video_operations = {}
    /\ request = NoRequest
    /\ response = NoResponse
    /\ effects = {}
    /\ CIdle
    /\ TIdle
    /\ IIdle

NextServer ==
    \/ \E req \in Requests : HandleRequest(req)
    \/ SendResponse

SpecServer == InitServer /\ [][NextServer]_vars

(***************************************************************************)
(* The library functions called directly.  A call either returns a value   *)
(* or raises; what the SDK does during the call is an input.  A returned   *)
(* string is a sequence of line tokens, a path being a line of its own.    *)
(***************************************************************************)
Return(v) == [returns |-> v]
Raise(e) == [raises |-> e]

ApiKeys == {"", "user-key"}

\* client.models.generate_content: it raises, or answers with response.text
\* None, or with a text
ContentReplies ==
    {[raises |-> "APIError"], [no_text |-> TRUE]} \cup
    {[text |-> t] : t \in {<<>>, <<"text">>, <<"err">>, <<"obj">>, <<"arr">>,
                            <<"text", "err">>}}

\* mutant: the client is made before the try block
generate_content_Unguarded(api_key, sdk) ==
    IF ~HasClient(api_key) THEN Raise("ValueError")
    ELSE IF "raises" \in DOMAIN sdk THEN Return(<<"err">>)
    ELSE IF "no_text" \in DOMAIN sdk THEN Return(<<"err">>)
    ELSE Return(sdk.text)

\* gemini_client.generate_content: the whole body is inside try/except
generate_content(api_key, sdk) ==
    IF ~HasClient(api_key) THEN Return(<<"err">>)
    ELSE IF "raises" \in DOMAIN sdk THEN Return(<<"err">>)
    ELSE IF "no_text" \in DOMAIN sdk THEN Return(<<"err">>)
    ELSE Return(sdk.text)

TtsPath == "generated_audio/tts_0.wav"

\* gemini_client.generate_tts: get_client is called before the try block
generate_tts(api_key, ext, F) ==
    IF ~HasClient(api_key) THEN [out |-> Raise("ValueError"), files |-> F]
    ELSE IF ext = "ok" THEN [out |-> Return(<<TtsPath>>), files |-> F \cup {TtsPath}]
    ELSE [out |-> Return(<<"err">>), files |-> F]

GeminiImageModel == "gemini-3-pro-image-preview"
ImagenModel == "imagen-4.0-generate-001"
GeminiImagePath == "generated_images/image_0_0.jpeg"
ImagenPath == "generated_images/image_0_0.png"

\* what one attempt does: answers with an image, answers without one, raises
Attempts == {"image", "none", "raise"}

\* mutant: Strategy 2 runs whatever Strategy 1 produced
generate_image_content_AlwaysImagen(api_key, a1, a2, F) ==
    IF ~HasClient(api_key)
    THEN [out |-> Raise("ValueError"), calls |-> <<>>, files |-> F]
    ELSE IF a2 = "image"
    THEN [out |-> Return(<<ImagenPath>>), calls |-> <<GeminiImageModel, ImagenModel>>,
          files |-> F \cup {ImagenPath}]
    ELSE IF a1 = "image"
    THEN [out |-> Return(<<GeminiImagePath>>), calls |-> <<GeminiImageModel, ImagenModel>>,
          files |-> F \cup {GeminiImagePath}]
    ELSE [out |-> Return(<<"err">>), calls |-> <<GeminiImageModel, ImagenModel>>,
          files |-> F]

\* gemini_client.generate_image_content: the value, the models called in
\* order, and the files left
generate_image_content(api_key, a1, a2, F) ==
    IF ~HasClient(api_key)
    THEN [out |-> Raise("ValueError"), calls |-> <<>>, files |-> F]
    ELSE IF a1 = "image"
    THEN [out |-> Return(<<GeminiImagePath>>), calls |-> <<GeminiImageModel>>,
          files |-> F \cup {GeminiImagePath}]
    ELSE IF a2 = "image"
    THEN [out |-> Return(<<ImagenPath>>), calls |-> <<GeminiImageModel, ImagenModel>>,
          files |-> F \cup {ImagenPath}]
    ELSE [out |-> Return(<<"err">>), calls |-> <<GeminiImageModel, ImagenModel>>,
          files |-> F]

\* a Python str value (a tagged value, so that a list can be asked whether
\* its items are strings)
Str(s) == [type |-> "str", value |-> s]
None == [type |-> "NoneType"]

\* research_templates.TEMPLATES, in the order of the dict literal: the keys
\* the three functions below read (analysis questions are cut at 60 characters)
TEMPLATES ==
    <<[key |-> "general_deep_dive",
        value |->
          [metadata |-> [name |-> "General Deep Dive"],
           research_config |->
             [search_layers |->
                <<[name |-> "Overview & History",
                   query_template |-> <<"{topic}", " history background overview origin timeline key facts">>],
                  [name |-> "How It Works / Details",
                   query_template |-> <<"{topic}", " detailed explanation mechanism process specifics technical details">>],
                  [name |-> "Impact & Significance",
                   query_template |-> <<"{topic}", " impact importance significance why it matters statistics data">>],
                  [name |-> "Key Perspectives",
                   query_template |-> <<"{topic}", " expert opinions different viewpoints controversy debate analysis">>],
                  [name |-> "Future Outlook",
                   query_template |-> <<"{topic}", " future trends predictions next steps upcoming developments">>]>>,
              analysis_questions |->
                <<Str("What is the comprehensive definition and history of this ..."),
                  Str("Who are the key figures, organizations, or entities invol..."),
                  Str("What are the most important facts, dates, and statistics?"),
                  Str("How does this work, or what is the detailed mechanism/pro..."),
                  Str("What is the global or local impact of this topic?"),
                  Str("What are the main arguments or perspectives surrounding t...")>>]]],
        [key |-> "investigative_expose",
        value |->
          [metadata |-> [name |-> "Investigative Expose"],
           research_config |->
             [search_layers |->
                <<[name |-> "Surface",
                   query_template |-> <<"{topic}", " overview how it works history key players market size">>],
                  [name |-> "Dark Side",
                   query_template |-> <<"{topic}", " scandal fraud lawsuit investigation whistleblower victims corruption">>],
                  [name |-> "Money Trail",
                   query_template |-> <<"{topic}", " profits who benefits tax evasion shell companies SEC filings financial">>],
                  [name |-> "Key People",
                   query_template |-> <<"{topic}", " CEO founder controversy lawsuit net worth criminal charges">>],
                  [name |-> "Expert Analysis",
                   query_template |-> <<"{topic}", " ProPublica NYT investigation academic study congressional hearing ICIJ">>]>>,
              analysis_questions |->
                <<Str("Who are the main villains  their names, roles, specific ..."),
                  Str("Who are the victims  how many, what were their losses, a..."),
                  Str("Who tried to stop it  whistleblowers, investigators, jou..."),
                  Str("What is the complete timeline from origin to current cons..."),
                  Str("Follow the money: who profits, who pays, how is it hidden..."),
                  Str("What systemic failures or enablers allowed this to happen?")>>]]],
        [key |-> "educational_explainer",
        value |->
          [metadata |-> [name |-> "Educational Explainer"],
           research_config |->
             [search_layers |->
                <<[name |-> "Fundamentals",
                   query_template |-> <<"{topic}", " explained basics how it works definition simple explanation">>],
                  [name |-> "Mechanics",
                   query_template |-> <<"{topic}", " detailed mechanism process steps science technology behind">>],
                  [name |-> "Implications",
                   query_template |-> <<"{topic}", " impact significance future applications real world examples why it matters">>]>>,
              analysis_questions |->
                <<Str("What is the simplest, most accurate explanation of this c..."),
                  Str("What are the 3-5 key components or steps that make this w..."),
                  Str("What are the most common misconceptions about this topic?"),
                  Str("What are the most mind-blowing or surprising facts about ..."),
                  Str("What real-world examples or applications make this tangible?"),
                  Str("What are the latest developments or discoveries in this a...")>>]]],
        [key |-> "product_tech_review",
        value |->
          [metadata |-> [name |-> "Product / Tech Review"],
           research_config |->
             [search_layers |->
                <<[name |-> "Specs & Features",
                   query_template |-> <<"{topic}", " specifications features details what's new official">>],
                  [name |-> "Real-World Use",
                   query_template |-> <<"{topic}", " review hands-on experience real world problems issues">>],
                  [name |-> "Competition",
                   query_template |-> <<"{topic}", " vs alternatives competitors comparison better than">>],
                  [name |-> "Value & Verdict",
                   query_template |-> <<"{topic}", " worth it price value long term investment opinion expert review">>]>>,
              analysis_questions |->
                <<Str("What are the exact specifications, pricing tiers, and key..."),
                  Str("What do expert reviewers agree is the biggest strength?"),
                  Str("What do experts agree is the biggest weakness or disappoi..."),
                  Str("How does it compare to the top 2-3 competitors on key met..."),
                  Str("What are real users saying  common praise and complaints?"),
                  Str("What is the total cost of ownership and who should / shou...")>>]]],
        [key |-> "personal_story_documentary",
        value |->
          [metadata |-> [name |-> "Personal Story / Documentary"],
           research_config |->
             [search_layers |->
                <<[name |-> "The Subject",
                   query_template |-> <<"{topic}", " story background origin who biography profile">>],
                  [name |-> "The Context",
                   query_template |-> <<"{topic}", " context environment conditions society culture why how">>],
                  [name |-> "The Arc",
                   query_template |-> <<"{topic}", " transformation change journey challenge struggle success failure turning point">>],
                  [name |-> "The Legacy",
                   query_template |-> <<"{topic}", " impact legacy influence aftermath what happened next current status">>]>>,
              analysis_questions |->
                <<Str("Who is the central character  what is their background, ..."),
                  Str("What was the inciting incident  the moment everything ch..."),
                  Str("What obstacles did they face, and what were the lowest po..."),
                  Str("Who supported them and who opposed them? Name specific pe..."),
                  Str("What was the climax  the decisive moment or achievement?"),
                  Str("What is the lasting impact, and where are they now?")>>]]],
        [key |-> "trending_news_hot_take",
        value |->
          [metadata |-> [name |-> "Trending News / Hot Take"],
           research_config |->
             [search_layers |->
                <<[name |-> "Breaking Facts",
                   query_template |-> <<"{topic}", " latest news facts details what happened when confirmed">>],
                  [name |-> "Context & History",
                   query_template |-> <<"{topic}", " context background history why this matters precedent similar cases">>],
                  [name |-> "Perspectives",
                   query_template |-> <<"{topic}", " opinion debate arguments for against expert reaction criticism support">>]>>,
              analysis_questions |->
                <<Str("What exactly happened  verified facts only, with dates a..."),
                  Str("What is the immediate impact and who is affected?"),
                  Str("What are the top 3 perspectives or arguments on this?"),
                  Str("What historical precedent or context makes this significant?"),
                  Str("What are people getting wrong or overlooking?"),
                  Str("What happens next  most likely scenarios?")>>]]]>>

TemplateIds == {TEMPLATES[i].key : i \in DOMAIN TEMPLATES}

\* TEMPLATES.get(template_id)
get_template(template_id) ==
    IF template_id \in TemplateIds THEN DictGet(TEMPLATES, template_id) ELSE None

\* [{"id": tid, **t["metadata"]} for tid, t in TEMPLATES.items()]
get_all_templates_metadata ==
    [i \in DOMAIN TEMPLATES |->
        [id |-> TEMPLATES[i].key, name |-> TEMPLATES[i].value.metadata.name]]

\* query_template.format(topic=topic): each {topic} field is replaced by the
\* topic, whose own braces are not interpreted
RECURSIVE Format(_, _)
Format(query_template, t) ==
    IF query_template = <<>> THEN ""
    ELSE (IF Head(query_template) = "{topic}" THEN t.value ELSE Head(query_template))
         \o Format(Tail(query_template), t)

\* mutant: an unknown template yields no query
build_research_queries_NoDefault(template_id, t) ==
    LET template == get_template(template_id)
    IN  IF template = None THEN <<>>
        ELSE LET layers == template.research_config.search_layers
             IN  [i \in DOMAIN layers |-> Str(Format(layers[i].query_template, t))]

build_research_queries(template_id, t) ==
    LET template == get_template(template_id)
    IN  IF template = None THEN <<t>>
        ELSE LET layers == template.research_config.search_layers
             IN  [i \in DOMAIN layers |-> Str(Format(layers[i].query_template, t))]

\* the topics asked about; one holds a replacement field of its own
ResearchTopics == {Str("test topic"), Str("{topic}"), Str("")}

CallBuildResearchQueries(template_id, t) ==
    /\ fn_call' = [fn |-> "build_research_queries", template_id |-> template_id,
                   of_topic |-> t]
    /\ fn_ret' = Return(build_research_queries(template_id, t))
    /\ UNCHANGED started
    /\ UNCHANGED <<nvars, pvars, svars, ivars, tvars>>

\* client.interactions.get: it raises, or answers with an interaction that
\* has a status, outputs and, when it failed, an error
Interactions ==
    {[raises |-> "APIError"]} \cup
    [status : {"completed", "in_progress", "requires_action", "cancelled"},
     outputs : {<<>>, <<"report">>, <<"draft", "report">>}] \cup
    [status : {"failed"}, outputs : {<<>>}, error : {"quota exceeded"}] \cup
    [status : {"failed"}, outputs : {<<>>}]

\* mutant: a status the function does not know is passed on as it is
poll_deep_research_PassesStatus(api_key, sdk) ==
    IF ~HasClient(api_key) \/ "raises" \in DOMAIN sdk
    THEN [status |-> "failed", error |-> "exception"]
    ELSE IF sdk.status = "completed"
    THEN [status |-> "completed",
          result |-> IF sdk.outputs = <<>> THEN "" ELSE sdk.outputs[Len(sdk.outputs)]]
    ELSE IF sdk.status = "failed"
    THEN [status |-> "failed", error |-> Get(sdk, "error", "Unknown error")]
    ELSE [status |-> sdk.status]

\* research_scriptwriter.poll_deep_research
poll_deep_research(api_key, sdk) ==
    IF ~HasClient(api_key) \/ "raises" \in DOMAIN sdk
    THEN [status |-> "failed", error |-> "exception"]
    ELSE IF sdk.status = "completed"
    THEN [status |-> "completed",
          result |-> IF sdk.outputs = <<>> THEN "" ELSE sdk.outputs[Len(sdk.outputs)]]
    ELSE IF sdk.status = "failed"
    THEN [status |-> "failed", error |-> Get(sdk, "error", "Unknown error")]
    ELSE [status |-> "in_progress"]

CallPollDeepResearch(api_key, sdk) ==
    /\ fn_call' = [fn |-> "poll_deep_research", api_key |-> api_key, interaction |-> sdk]
    /\ fn_ret' = Return(poll_deep_research(api_key, sdk))
    /\ UNCHANGED started
    /\ UNCHANGED <<nvars, pvars, svars, ivars, tvars>>

MaxJobs == 2

\* the names the video service gives its operations, one per job
OpNames == {"operations/" \o ToString(i) : i \in 1..MaxJobs}

CallGenerateContent(api_key, sdk) ==
    /\ fn_call' = [fn |-> "generate_content", api_key |-> api_key, reply |-> sdk]
    /\ fn_ret' = generate_content(api_key, sdk)
    /\ UNCHANGED started
    /\ UNCHANGED <<nvars, pvars, svars, ivars, tvars>>

CallGenerateTts(api_key, ext) ==
    LET r == generate_tts(api_key, ext, files)
    IN  /\ fn_call' = [fn |-> "generate_tts", api_key |-> api_key, ext |-> ext]
        /\ fn_ret' = r.out
        /\ files' = r.files
        /\ UNCHANGED started
        /\ UNCHANGED <<user_docs, dossiers, env_key, tmp_dir, video_operations,
                       request, response, effects>>
        /\ UNCHANGED <<nvars, pvars, ivars, tvars>>

CallGenerateImage(api_key, a1, a2) ==
    LET r == generate_image_content(api_key, a1, a2, files)
    IN  /\ fn_call' = [fn |-> "generate_image_content", api_key |-> api_key,
                       attempt1 |-> a1, attempt2 |-> a2, models |-> r.calls]
        /\ fn_ret' = r.out
        /\ files' = r.files
        /\ UNCHANGED started
        /\ UNCHANGED <<user_docs, dossiers, env_key, tmp_dir, video_operations,
                       request, response, effects>>
        /\ UNCHANGED <<nvars, pvars, ivars, tvars>>

\* start_video_generation for a scene; the service names the new operation
CallStartVideo(op_name, api_key, ext) ==
    LET v == start_video_generation(op_name, "a1", api_key, ext, Stored)
    IN  /\ op_name \notin started
        /\ fn_call' = [fn |-> "start_video_generation", api_key |-> api_key, ext |-> ext]
        /\ fn_ret' = Return(v.result)
        /\ video_operations' = v.S.ops
        /\ files' = v.S.files
        /\ started' = IF "error" \in DOMAIN v.result THEN started
                      ELSE started \cup {op_name}
        /\ UNCHANGED <<user_docs, dossiers, env_key, tmp_dir, request, response, effects>>
        /\ UNCHANGED <<nvars, pvars, ivars, tvars>>

CallPollVideo(operation_name, api_key, ext) ==
    LET v == poll_video_generation(operation_name, "a1", api_key, ext, Stored)
    IN  /\ fn_call' = [fn |-> "poll_video_generation", api_key |-> api_key, ext |-> ext,
                       operation_name |-> operation_name]
        /\ fn_ret' = Return(v.result)
        /\ video_operations' = v.S.ops
        /\ files' = v.S.files
        /\ UNCHANGED started
        /\ UNCHANGED <<user_docs, dossiers, env_key, tmp_dir, request, response, effects>>
        /\ UNCHANGED <<nvars, pvars, ivars, tvars>>

\* the library functions called in any order, with or without a key of the
\* caller's and with or without GEMINI_API_KEY in the environment
InitCalls ==
    /\ NIdle
    /\ PIdle
    /\ user_docs = [u \in Uids |-> ""]
    /\ dossiers = {}
    /\ env_key \in {"", "server-key"}
    /\ tmp_dir = <<>>
    /\ files = {}
    /\ video_operations = {}
    /\ request = NoRequest
    /\ response = NoResponse
    /\ effects = {}
    /\ CIdle
    /\ TIdle
    /\ IIdle

NextCalls ==
    \/ \E k \in ApiKeys, sdk \in ContentReplies : CallGenerateContent(k, sdk)
    \/ \E k \in ApiKeys, ext \in {"ok", "fail"} : CallGenerateTts(k, ext)
    \/ \E k \in ApiKeys, a1 \in Attempts, a2 \in Attempts : CallGenerateImage(k, a1, a2)
    \/ \E n \in OpNames, k \in ApiKeys, ext \in {"ok", "fail"} : CallStartVideo(n, k, ext)
    \/ \E n \in OpNames, k \in ApiKeys, ext \in {"ok", "fail", "pending", "empty"} :
          CallPollVideo(n, k, ext)

SpecCalls == InitCalls /\ [][NextCalls]_vars

(***************************************************************************)
(* research_scriptwriter.regenerate_beats and the prompt it builds.  Beat  *)
(* indices are Python's, from 0: index i is beats[i + 1] here.             *)
(***************************************************************************)
NoBeatsToRegenerate == [error_text |-> "Error: No beats to regenerate."]

\* prompt.startswith("Error:")
PromptStartsWithError(prompt) == "error_text" \in DOMAIN prompt

\* [i for i, b in enumerate(beats) if b.get("act") == target_act]
IndicesOfAct(bs, target_act) ==
    LET hit(i) == "act" \in DOMAIN bs[i + 1] /\ bs[i + 1].act = target_act
        F[n \in 0..Len(bs)] ==
            IF n = 0 THEN <<>>
            ELSE IF hit(n - 1) THEN Append(F[n - 1], n - 1) ELSE F[n - 1]
    IN  F[Len(bs)]

Min(S) == CHOOSE x \in S : \A y \in S : x <= y
Max(S) == CHOOSE x \in S : \A y \in S : x >= y
Range(q) == {q[i] : i \in DOMAIN q}

\* mutant: the indices passed are kept when an act is given, the act's beats
\* being added to them
build_beat_regeneration_prompt_KeepsIndices(full_narration, target_beat_indices, target_act) ==
    LET bs == Get(full_narration, "narration", <<>>)
        targets == IF target_act /= ""
                   THEN target_beat_indices \o IndicesOfAct(bs, target_act)
                   ELSE target_beat_indices
    IN  IF targets = <<>> THEN NoBeatsToRegenerate
        ELSE LET min_idx == Max({0, Min(Range(targets)) - 3})
                 max_idx == Min({Len(bs), Max(Range(targets)) + 4})
                 shown == {i \in 0..(Len(bs) - 1) : min_idx <= i /\ i < max_idx}
                 G[n \in 0..Len(bs)] ==
                     IF n = 0 THEN <<>>
                     ELSE IF (n - 1) \in shown /\ (n - 1) \in Range(targets)
                     THEN Append(G[n - 1], [index |-> n - 1, beat |-> bs[n]])
                     ELSE G[n - 1]
             IN  [context |-> shown, target_text |-> G[Len(bs)],
                  beats_asked |-> Len(targets)]

\* research_templates.build_beat_regeneration_prompt: the error string, or
\* the prompt, of which the parts that depend on the targets are kept: the
\* indices of the context beats, the entries under BEATS TO REGENERATE in
\* order, and the number in "Return N beat(s)"
build_beat_regeneration_prompt(full_narration, target_beat_indices, target_act) ==
    LET bs == Get(full_narration, "narration", <<>>)
        targets == IF target_act /= "" THEN IndicesOfAct(bs, target_act)
                   ELSE target_beat_indices
    IN  IF targets = <<>> THEN NoBeatsToRegenerate
        ELSE LET min_idx == Max({0, Min(Range(targets)) - 3})
                 max_idx == Min({Len(bs), Max(Range(targets)) + 4})
                 shown == {i \in 0..(Len(bs) - 1) : min_idx <= i /\ i < max_idx}
                 G[n \in 0..Len(bs)] ==
                     IF n = 0 THEN <<>>
                     ELSE IF (n - 1) \in shown /\ (n - 1) \in Range(targets)
                     THEN Append(G[n - 1], [index |-> n - 1, beat |-> bs[n]])
                     ELSE G[n - 1]
             IN  [context |-> shown, target_text |-> G[Len(bs)],
                  beats_asked |-> Len(targets)]

EmptyRegenerationMsg == <<"Gemini returned an empty response for beat regeneration.">>
RegenerationParseMsg == <<"Could not parse regenerated beats as JSON">>

\* what the model's JSON is, for the beats it was asked for
RegeneratedObject == [act |-> "Act 1", beat |-> "new", text |-> "rewritten"]
RegeneratedArray(prompt) == [i \in 1..prompt.beats_asked |-> RegeneratedObject]

\* research_scriptwriter.regenerate_beats: the dict returned, the prompt and
\* the number of generate_content calls
regenerate_beats(full_narration, target_act, target_beat_indices, api_key, sdk) ==
    LET prompt == build_beat_regeneration_prompt(full_narration, target_beat_indices,
                                                 target_act)
    IN  IF PromptStartsWithError(prompt)
        THEN [out |-> [error |-> <<prompt.error_text>>], prompt |-> prompt, model_calls |-> 0]
        ELSE LET reply_text == generate_content(api_key, sdk).returns
                 parsed == _parse_json_response(reply_text, RegeneratedObject,
                                                RegeneratedArray(prompt))
                 out == IF reply_text = <<>> \/ StartsWith(reply_text, "err")
                        THEN [error |-> IF reply_text /= <<>> THEN reply_text
                                        ELSE EmptyRegenerationMsg]
                        ELSE IF ~parsed.ok
                        THEN [error |-> RegenerationParseMsg \o reply_text]
                        ELSE IF parsed.isdict
                        THEN [success |-> TRUE,
                              beats |-> Get(parsed.value, "beats", <<parsed.value>>)]
                        ELSE [success |-> TRUE, beats |-> parsed.value]
             IN  [out |-> out, prompt |-> prompt, model_calls |-> 1]

\* the narrations edited: one of six beats in which "Act 1" resumes after a
\* beat without an act key, and one without beats
EditedNarrations ==
    {[title |-> Title,
      narration |-> Expand(<<[act |-> "Act 1", n |-> 2], [act |-> "Act 2", n |-> 2],
                             [act |-> NoAct, n |-> 1], [act |-> "Act 1", n |-> 1]>>, 1)],
     [title |-> Title, narration |-> <<>>]}

\* target_act: not given, an act of the narration, an act it does not have
TargetActs == {"", "Act 1", "Act 2", "Act 3"}
TargetIndices == {<<>>, <<0>>, <<3, 2>>, <<9>>}

CallRegenerateBeats(full_narration, target_act, target_beat_indices, api_key, sdk) ==
    LET r == regenerate_beats(full_narration, target_act, target_beat_indices, api_key, sdk)
    IN  /\ fn_call' = [fn |-> "regenerate_beats", full_narration |-> full_narration,
                       target_act |-> target_act,
                       target_beat_indices |-> target_beat_indices,
                       api_key |-> api_key, reply |-> sdk,
                       prompt |-> r.prompt, model_calls |-> r.model_calls]
        /\ fn_ret' = Return(r.out)
        /\ UNCHANGED started
        /\ UNCHANGED <<nvars, pvars, svars, ivars, tvars>>

\* the functions of the research and script modules that keep no state
InitScript == InitCalls

NextScript ==
    \/ \E k \in ApiKeys, sdk \in Interactions : CallPollDeepResearch(k, sdk)
    \/ \E id \in TemplateIds \cup {"no_such_template"}, t \in ResearchTopics :
          CallBuildResearchQueries(id, t)
    \/ \E n \in EditedNarrations, a \in TargetActs, ix \in TargetIndices,
          k \in ApiKeys, sdk \in ContentReplies :
          CallRegenerateBeats(n, a, ix, k, sdk)

SpecScript == InitScript /\ [][NextScript]_vars

(***************************************************************************)
(* POST /api/visuals/generate-batch-images: the scenes are generated on a  *)
(* pool of 5 threads, the results are collected as the futures complete    *)
(* and sorted by str(scene_id) before the response.                        *)
(***************************************************************************)
MAX_PARALLEL_IMAGES == 5

\* the scene ids used, in the order of their str() values; "" is the sort
\* key of a result without scene_id
SceneIdOrder == <<"", "a1", "a2", "a3", "a4", "a5", "a6">>
KeyRank(k) == CHOOSE i \in DOMAIN SceneIdOrder : SceneIdOrder[i] = k

\* key=lambda r: str(r.get('scene_id', ''))
SortKey(r) == Get(r, "scene_id", "")

\* list.sort(key=...): stable, items with equal keys keep their order
InsertByKey(sorted, r) ==
    LET before == SelectSeq(sorted, LAMBDA x : KeyRank(SortKey(x)) <= KeyRank(SortKey(r)))
        after == SelectSeq(sorted, LAMBDA x : KeyRank(SortKey(x)) > KeyRank(SortKey(r)))
    IN  before \o <<r>> \o after

RECURSIVE SortByKey(_)
SortByKey(rs) ==
    IF rs = <<>> THEN <<>>
    ELSE InsertByKey(SortByKey(SubSeq(rs, 1, Len(rs) - 1)), rs[Len(rs)])

ImagesRunning == {i \in DOMAIN img_status : img_status[i] = "running"}
ImagesQueued == {i \in DOMAIN img_status : img_status[i] = "queued"}

\* the handler up to the fan-out: the guard and the submissions
BatchImagesStart ==
    /\ img_pc = "start"
    /\ IF scenes = <<>>
       THEN /\ img_pc' = "done"
            /\ img_ret' = [code |-> 400, body |-> [error |-> "No scenes provided"]]
            /\ UNCHANGED <<img_status, img_ext>>
       ELSE /\ img_pc' = "pool"
            /\ img_status' = [i \in DOMAIN scenes |-> "queued"]
            /\ img_ext' = [i \in DOMAIN scenes |-> ""]
            /\ UNCHANGED img_ret
    /\ UNCHANGED <<scenes, results>>
    /\ UNCHANGED <<nvars, pvars, svars, cvars, tvars>>

\* a pool thread takes the oldest queued work item
ImageWorkerStart ==
    /\ img_pc = "pool"
    /\ ImagesQueued /= {}
    /\ Cardinality(ImagesRunning) < MAX_PARALLEL_IMAGES
    /\ LET i == CHOOSE q \in ImagesQueued : \A r \in ImagesQueued : q <= r
       IN  img_status' = [img_status EXCEPT ![i] = "running"]
    /\ UNCHANGED <<scenes, img_pc, img_ext, results, img_ret>>
    /\ UNCHANGED <<nvars, pvars, svars, cvars, tvars>>

\* generate_one(scene) returns and as_completed hands its future to the loop
\* that appends to results
ImageWorkerFinish(i, ext) ==
    LET g == generate_scene_image(scenes[i].scene_id, "user-key", ext, Stored)
    IN  /\ img_pc = "pool"
        /\ i \in ImagesRunning
        /\ img_status' = [img_status EXCEPT ![i] = "done"]
        /\ img_ext' = [img_ext EXCEPT ![i] = ext]
        /\ results' = Append(results, g.result)
        /\ files' = g.S.files
        /\ UNCHANGED <<scenes, img_pc, img_ret>>
        /\ UNCHANGED <<user_docs, dossiers, env_key, tmp_dir, video_operations,
                       request, response, effects>>
        /\ UNCHANGED <<nvars, pvars, cvars, tvars>>

\* leaving the `with` block, the sort and the response
BatchImagesRespond ==
    /\ img_pc = "pool"
    /\ \A i \in DOMAIN img_status : img_status[i] = "done"
    /\ img_pc' = "done"
    /\ img_ret' = [code |-> 200, body |-> [results |-> SortByKey(results)]]
    /\ UNCHANGED <<scenes, img_status, img_ext, results>>
    /\ UNCHANGED <<nvars, pvars, svars, cvars, tvars>>

Scene(id) == [scene_id |-> id, prompt |-> "a prompt"]

\* the scenes lists submitted: none, two and three scenes (not in the order
\* of their ids), and six, one more than the pool has threads
SubmittedScenes ==
    {<<>>,
     <<Scene("a1"), Scene("a2")>>,
     <<Scene("a3"), Scene("a1"), Scene("a2")>>,
     <<Scene("a1"), Scene("a2"), Scene("a3"), Scene("a4"), Scene("a5"), Scene("a6")>>}

\* what the image model does for one scene: an image, no image, an exception
ImageOutcomes == {"ok", "empty", "fail"}

InitImages ==
    /\ NIdle
    /\ PIdle
    /\ SIdle
    /\ CIdle
    /\ TIdle
    /\ scenes \in SubmittedScenes
    /\ img_pc = "start"
    /\ img_status = <<>>
    /\ img_ext = <<>>
    /\ results = <<>>
    /\ img_ret = NotReturned

NextImages ==
    \/ BatchImagesStart
    \/ ImageWorkerStart
    \/ \E i \in DOMAIN img_status, ext \in ImageOutcomes : ImageWorkerFinish(i, ext)
    \/ BatchImagesRespond

SpecImages == InitImages /\ [][NextImages]_vars

(***************************************************************************)
(* youtube_utils.get_transcript.  YOUTUBE_PROXY_URL is the sequence of the *)
(* pieces proxy_env.split(",") gives (<<>> when the variable is unset or   *)
(* empty); a tuple (text, None) is [text |-> ...] and a tuple (None, msg)  *)
(* is [error |-> ...].                                                     *)
(***************************************************************************)
VideoUrls == {"https://youtu.be/dQw4w9WgXcQ", "https://example.com/watch"}

\* the 11-character id after "v=" or "/", "" for None (no match)
extract_youtube_id(url) ==
    IF url = "https://youtu.be/dQw4w9WgXcQ" THEN "dQw4w9WgXcQ" ELSE ""

\* p.strip()
strip(p) ==
    CASE p = " http://p2:8080" -> "http://p2:8080"
      [] p = " " -> ""
      [] OTHER -> p

\* the values of YOUTUBE_PROXY_URL: unset, "http://p1:8080", " ",
\* "http://p1:8080, http://p2:8080", "http://p1:8080,", "," and three proxies
ProxyEnvs ==
    {<<>>,
     <<"http://p1:8080">>,
     <<" ">>,
     <<"http://p1:8080", " http://p2:8080">>,
     <<"http://p1:8080", "">>,
     <<"", "">>,
     <<"http://p3:8080", "http://p1:8080", " http://p2:8080">>}

\* what api.fetch is asked through: the proxy's URL, or a direct connection
Direct == "direct"
Configuration(proxy_url) == IF proxy_url /= "" THEN proxy_url ELSE Direct
Configurations == {Direct, "http://p1:8080", "http://p2:8080", "http://p3:8080"}

InvalidYouTubeUrl == "Invalid YouTube URL"
FailedToFetchTranscript == "Failed to fetch transcript after trying all configuration(s)"

\* mutant: the loop goes on after a successful fetch and returns the last one
get_transcript_TriesAll(video_url, proxy_env, blocked) ==
    LET video_id == extract_youtube_id(video_url)
        listed == IF proxy_env /= <<>>
                  THEN [i \in DOMAIN proxy_env |-> strip(proxy_env[i])]
                  ELSE <<>>
        proxies == IF listed = <<>> THEN <<"">> ELSE listed
        tried == [i \in DOMAIN proxies |-> Configuration(proxies[i])]
    IN  IF video_id = ""
        THEN [out |-> [error |-> InvalidYouTubeUrl], attempts |-> <<>>]
        ELSE IF \E i \in DOMAIN tried : tried[i] \notin blocked
        THEN [out |-> [text |-> "transcript of " \o video_id], attempts |-> tried]
        ELSE [out |-> [error |-> FailedToFetchTranscript, configurations |-> Len(proxies)],
              attempts |-> tried]

\* get_transcript: the tuple returned and the configurations api.fetch was
\* called through, in order.  blocked is the set of configurations whose
\* fetch raises.
get_transcript(video_url, proxy_env, blocked) ==
    LET video_id == extract_youtube_id(video_url)
        listed == IF proxy_env /= <<>>
                  THEN [i \in DOMAIN proxy_env |-> strip(proxy_env[i])]
                  ELSE <<>>
        proxies == IF listed = <<>> THEN <<"">> ELSE listed
        \* the state of the loop after n iterations
        F[n \in 0..Len(proxies)] ==
            IF n = 0 THEN [attempts |-> <<>>, returned |-> FALSE]
            ELSE IF F[n - 1].returned THEN F[n - 1]
            ELSE [attempts |-> Append(F[n - 1].attempts, Configuration(proxies[n])),
                  returned |-> Configuration(proxies[n]) \notin blocked]
        end == F[Len(proxies)]
    IN  IF video_id = ""
        THEN [out |-> [error |-> InvalidYouTubeUrl], attempts |-> <<>>]
        ELSE IF end.returned
        THEN [out |-> [text |-> "transcript of " \o video_id], attempts |-> end.attempts]
        ELSE [out |-> [error |-> FailedToFetchTranscript, configurations |-> Len(proxies)],
              attempts |-> end.attempts]

CallGetTranscript(video_url, proxy_env, blocked) ==
    LET r == get_transcript(video_url, proxy_env, blocked)
    IN  /\ fn_call' = [fn |-> "get_transcript", video_url |-> video_url,
                       proxy_env |-> proxy_env, blocked |-> blocked,
                       attempts |-> r.attempts]
        /\ fn_ret' = Return(r.out)
        /\ UNCHANGED started
        /\ UNCHANGED <<nvars, pvars, svars, ivars, tvars>>

(***************************************************************************)
(* gemini_client.analyze_style_from_images / analyze_style_from_text.  A   *)
(* list of field names is a sequence; the JSON object the model returns is *)
(* a record; an "Error: ..." string is [error_text |-> ...].               *)
(***************************************************************************)
LOCKED_PROMPT_FIELDS == <<"shot_size", "subject", "arrangement", "background">>

\* the detail levels the model names, and one naming two of them
DetailLevels == {"Minimal", "Abstract", "Minimal / Abstract", "High Detail", "Standard", ""}

\* word in (detail_level or "").lower()
DetailMentions(detail_level, word) ==
    CASE word = "minimal" -> detail_level \in {"Minimal", "Minimal / Abstract"}
      [] word = "abstract" -> detail_level \in {"Abstract", "Minimal / Abstract"}
      [] OTHER -> FALSE

_build_default_schema_from_detail_level(detail_level) ==
    IF DetailMentions(detail_level, "minimal")
    THEN [always_include |-> LOCKED_PROMPT_FIELDS \o <<"mood">>,
          include |-> <<"color_restriction", "output_style">>,
          exclude |-> <<"camera_lens", "camera_aperture", "dof", "film_stock",
                        "made_out_of", "lighting", "lighting_direction", "room_objects",
                        "tags">>]
    ELSE IF DetailMentions(detail_level, "abstract")
    THEN [always_include |-> LOCKED_PROMPT_FIELDS \o <<"mood">>,
          include |-> <<"color_restriction", "output_style", "tags">>,
          exclude |-> <<"camera_lens", "camera_aperture", "dof", "film_stock",
                        "made_out_of", "lighting_direction", "room_objects">>]
    ELSE [always_include |-> LOCKED_PROMPT_FIELDS \o <<"mood">>,
          include |-> <<"lighting", "lighting_direction", "camera_lens",
                        "camera_aperture", "dof", "film_stock", "color_restriction",
                        "output_style", "room_objects", "made_out_of", "tags">>,
          exclude |-> <<>>]

\* mutant: the locked fields are not added
AppendLocked_Skipped(always) == always

\* for field in LOCKED_PROMPT_FIELDS: if field not in always: always.append(field)
AppendLocked(always) ==
    LET F[n \in 0..Len(LOCKED_PROMPT_FIELDS)] ==
            IF n = 0 THEN always
            ELSE IF LOCKED_PROMPT_FIELDS[n] \in Range(F[n - 1]) THEN F[n - 1]
            ELSE Append(F[n - 1], LOCKED_PROMPT_FIELDS[n])
    IN  F[Len(LOCKED_PROMPT_FIELDS)]

\* the block both functions run on result = json.loads(response.text) when it
\* is an object: the default schema when there is none, then the locked fields
ValidatedStyle(result) ==
    LET detail_level == Get(Get(result, "style_intent", <<>>), "detail_level", "Standard")
        with_schema == IF "prompt_schema" \notin DOMAIN result
                       THEN [prompt_schema |->
                                _build_default_schema_from_detail_level(detail_level)]
                            @@ result
                       ELSE result
        always == AppendLocked(Get(with_schema.prompt_schema, "always_include", <<>>))
    IN  [prompt_schema |-> [always_include |-> always] @@ with_schema.prompt_schema]
        @@ with_schema

StyleParseError == [error_text |-> "Error: Could not parse style analysis response"]
StyleException(msg) == [error_text |-> "Error: " \o msg]

\* what the model answers: an API error, text that is not JSON, JSON that is
\* not of the shape asked for (an array, "prompt_schema": null, ...: the
\* attribute lookups raise), or an object
StyleSchemas ==
    {<<>>,
     [include |-> <<"tags">>, exclude |-> <<"dof">>],
     [always_include |-> <<>>, include |-> <<>>, exclude |-> <<>>],
     [always_include |-> <<"subject", "mood">>, include |-> <<"output_style">>,
      exclude |-> <<"background", "camera_lens">>],
     [always_include |-> <<"background", "arrangement", "subject", "shot_size", "mood">>,
      include |-> <<"lighting">>, exclude |-> <<>>]}

StyleObjects ==
    {[style_summary |-> "Flat 2D cartoon"]} \cup
    {[style_summary |-> "Flat 2D cartoon", style_intent |-> <<>>]} \cup
    {[style_summary |-> "Flat 2D cartoon", style_intent |-> [detail_level |-> l]] :
        l \in DetailLevels} \cup
    {[style_summary |-> "Flat 2D cartoon", style_intent |-> [detail_level |-> l],
      prompt_schema |-> sch] : l \in {"Minimal"}, sch \in StyleSchemas} \cup
    {[prompt_schema |-> sch] : sch \in StyleSchemas}

StyleReplies ==
    {[raises |-> "APIError"], [text |-> <<"text">>], [json_misshapen |-> TRUE]} \cup
    {[json |-> o] : o \in StyleObjects}

\* the images sent: data URIs or bare base64, the last one with bad padding
ImageLists ==
    {<<"data:image/jpeg;base64,/9j/4AAQ">>,
     <<"iVBORw0K", "data:image/png;base64,iVBORw0K">>,
     <<"data:image/png;base64,iVB">>}

\* base64.b64decode(b64_data) returns
Decodes(img_data) == img_data /= "data:image/png;base64,iVB"

analyze_style_from_images(image_data_list, api_key, sdk) ==
    IF ~HasClient(api_key) THEN StyleException("GEMINI_API_KEY not found")
    ELSE IF \E i \in DOMAIN image_data_list : ~Decodes(image_data_list[i])
    THEN StyleException("Incorrect padding")
    ELSE IF "raises" \in DOMAIN sdk THEN StyleException(sdk.raises)
    ELSE IF "text" \in DOMAIN sdk THEN StyleParseError
    ELSE IF "json_misshapen" \in DOMAIN sdk THEN StyleException("AttributeError")
    ELSE ValidatedStyle(sdk.json)

analyze_style_from_text(style_description, api_key, sdk) ==
    IF ~HasClient(api_key) THEN StyleException("GEMINI_API_KEY not found")
    ELSE IF "raises" \in DOMAIN sdk THEN StyleException(sdk.raises)
    ELSE IF "text" \in DOMAIN sdk THEN StyleParseError
    ELSE IF "json_misshapen" \in DOMAIN sdk THEN StyleException("AttributeError")
    ELSE ValidatedStyle(sdk.json)

CallAnalyzeStyleFromImages(image_data_list, api_key, sdk) ==
    /\ fn_call' = [fn |-> "analyze_style_from_images", api_key |-> api_key,
                   image_data_list |-> image_data_list, reply |-> sdk]
    /\ fn_ret' = Return(analyze_style_from_images(image_data_list, api_key, sdk))
    /\ UNCHANGED started
    /\ UNCHANGED <<nvars, pvars, svars, ivars, tvars>>

CallAnalyzeStyleFromText(style_description, api_key, sdk) ==
    /\ fn_call' = [fn |-> "analyze_style_from_text", api_key |-> api_key,
                   style_description |-> style_description, reply |-> sdk]
    /\ fn_ret' = Return(analyze_style_from_text(style_description, api_key, sdk))
    /\ UNCHANGED started
    /\ UNCHANGED <<nvars, pvars, svars, ivars, tvars>>

(***************************************************************************)
(* research_templates._build_prompt_format_instructions.  The sections of  *)
(* the text returned are kept apart, each a sequence of lines.             *)
(***************************************************************************)
DEFAULT_PROMPT_SCHEMA ==
    [always_include |-> <<"shot_size", "subject", "arrangement", "background", "mood">>,
     include |-> <<"lighting", "lighting_direction", "camera_lens", "camera_aperture",
                   "dof", "film_stock", "color_restriction", "output_style",
                   "room_objects", "made_out_of">>,
     exclude |-> <<>>]

\* field -> (bracket, description); head is bracket.strip('[]').split(':')[0]
_FIELD_TO_PROMPT ==
    [shot_size |-> [bracket |-> "[SHOT SIZE]", head |-> "SHOT SIZE",
                    desc |-> "Camera framing: wide, medium, close-up, extreme close-up"],
     subject |-> [bracket |-> "[SUBJECT: detailed physical description, age, features, wardrobe]",
                  head |-> "SUBJECT", desc |-> "Full character/object description"],
     arrangement |-> [bracket |-> "[POSE/ACTION], [EXPRESSION]",
                      head |-> "POSE/ACTION], [EXPRESSION",
                      desc |-> "Body position, gesture, facial expression, camera angle relative to subject"],
     background |-> [bracket |-> "[BACKGROUND/ENVIRONMENT: specific location, key visual details]",
                     head |-> "BACKGROUND/ENVIRONMENT", desc |-> "Setting and backdrop"],
     mood |-> [bracket |-> "[MOOD: emotional atmosphere]", head |-> "MOOD",
               desc |-> "The feeling this frame should evoke"],
     lighting |-> [bracket |-> "[LIGHTING: quality, setup, softness/hardness]",
                   head |-> "LIGHTING", desc |-> "Overall lighting approach"],
     lighting_direction |->
         [bracket |-> "[LIGHTING DIRECTION: key light position, fill, color temperature]",
          head |-> "LIGHTING DIRECTION", desc |-> "Technical lighting specs"],
     camera_lens |-> [bracket |-> "[CAMERA LENS: focal length in mm]", head |-> "CAMERA LENS",
                      desc |-> "e.g., 35mm, 85mm, 200mm"],
     camera_aperture |-> [bracket |-> "[APERTURE: f-stop]", head |-> "APERTURE",
                          desc |-> "e.g., f/1.4, f/2.8, f/8"],
     dof |-> [bracket |-> "[DEPTH OF FIELD]", head |-> "DEPTH OF FIELD",
              desc |-> "Shallow bokeh vs deep focus"],
     film_stock |-> [bracket |-> "[FILM STOCK/TEXTURE]", head |-> "FILM STOCK/TEXTURE",
                     desc |-> "Grain, analog feel, digital clean"],
     color_restriction |-> [bracket |-> "[COLOR PALETTE: primary and accent colors]",
                            head |-> "COLOR PALETTE", desc |-> "Color rules and restrictions"],
     output_style |-> [bracket |-> "[STYLE/AESTHETIC: overall look]", head |-> "STYLE/AESTHETIC",
                       desc |-> "e.g., photorealistic 8k, watercolor, pixel art, cel animation"],
     room_objects |-> [bracket |-> "[PROPS/OBJECTS in scene]", head |-> "PROPS/OBJECTS in scene",
                       desc |-> "Important items visible in frame"],
     made_out_of |-> [bracket |-> "[MATERIAL/TEXTURE of subject]",
                      head |-> "MATERIAL/TEXTURE of subject",
                      desc |-> "What the subject is made of or looks like"],
     tags |-> [bracket |-> "[AESTHETIC TAGS]", head |-> "AESTHETIC TAGS",
               desc |-> "Keyword descriptors for the overall feel"]]

\* the fields whose last-frame line is "[SAME ...]"
SameInLastFrame ==
    {"subject", "background", "lighting", "lighting_direction", "color_restriction",
     "output_style", "film_stock", "mood"}

FirstFrameLine(field) == _FIELD_TO_PROMPT[field].bracket

LastFrameLine(field) ==
    IF field = "arrangement" THEN "[END POSE/ACTION], [END EXPRESSION]"
    ELSE IF field \in SameInLastFrame THEN "[SAME " \o _FIELD_TO_PROMPT[field].head \o "]"
    ELSE _FIELD_TO_PROMPT[field].bracket

FieldGuideLine(field) == "  - " \o field \o ": " \o _FIELD_TO_PROMPT[field].desc

ExcludedName(field) ==
    IF field \in DOMAIN _FIELD_TO_PROMPT
    THEN field \o " (" \o _FIELD_TO_PROMPT[field].desc \o ")"
    ELSE field

\* active_fields = always + include
ActiveFields(schema) ==
    Get(schema, "always_include", <<>>) \o Get(schema, "include", <<>>)

_build_prompt_format_instructions(schema, aspect_ratio) ==
    LET exclude == Get(schema, "exclude", <<>>)
        active_fields == ActiveFields(schema)
        known == SelectSeq(active_fields, LAMBDA f : f \in DOMAIN _FIELD_TO_PROMPT)
        ratio == "[ASPECT RATIO: " \o aspect_ratio \o "]"
    IN  [field_guide |-> [i \in DOMAIN known |-> FieldGuideLine(known[i])],
         exclusion_warning |-> [i \in DOMAIN exclude |-> "- " \o ExcludedName(exclude[i])],
         first_frame_template |->
             [i \in DOMAIN known |-> FirstFrameLine(known[i])]
             \o <<ratio, "--", "Exclude: [specific exclusions for this scene]">>,
         last_frame_template |->
             [i \in DOMAIN known |-> LastFrameLine(known[i])]
             \o <<ratio, "--", "Exclude: [specific exclusions]">>,
         veo_template |->
             <<"[Shot size] of [subject] [TRANSITIONAL ACTION] in [background].">>
             \o (IF {"lighting", "lighting_direction"} \cap Range(active_fields) /= {}
                 THEN <<"Lighting: [conditions, any changes].">> ELSE <<>>)
             \o <<"Camera: [movement type, speed, motivation].",
                  "Audio: [ambient], [SFX], [dialogue if any].">>
             \o (IF "output_style" \in Range(active_fields)
                 THEN <<"Style: [aesthetic reference].">> ELSE <<>>)
             \o <<"--", "negative prompt: no text overlays, no watermarks, no logos, [scene-specific exclusions]">>]

\* the schemas a production prompt is built for: the default, the ones the
\* style analysis returns, an empty one and one naming fields unknown to
\* _FIELD_TO_PROMPT
PromptSchemas ==
    {DEFAULT_PROMPT_SCHEMA, <<>>,
     [always_include |-> LOCKED_PROMPT_FIELDS, include |-> <<"glow", "lighting">>,
      exclude |-> <<"sparkle", "tags">>]}
    \cup {ValidatedStyle(o).prompt_schema : o \in StyleObjects}

AspectRatios == {"16:9", "9:16"}

CallBuildPromptFormatInstructions(schema, aspect_ratio) ==
    /\ fn_call' = [fn |-> "_build_prompt_format_instructions", schema |-> schema,
                   aspect_ratio |-> aspect_ratio]
    /\ fn_ret' = Return(_build_prompt_format_instructions(schema, aspect_ratio))
    /\ UNCHANGED started
    /\ UNCHANGED <<nvars, pvars, svars, ivars, tvars>>

\* the helpers of the video and style pages, called in any order
InitHelpers == InitCalls

NextHelpers ==
    \/ \E u \in VideoUrls, e \in ProxyEnvs, b \in SUBSET Configurations :
          CallGetTranscript(u, e, b)
    \/ \E l \in ImageLists, k \in ApiKeys, sdk \in StyleReplies :
          CallAnalyzeStyleFromImages(l, k, sdk)
    \/ \E k \in ApiKeys, sdk \in StyleReplies :
          CallAnalyzeStyleFromText("2D cartoon, bright colors", k, sdk)
    \/ \E sch \in PromptSchemas, ar \in AspectRatios :
          CallBuildPromptFormatInstructions(sch, ar)

SpecHelpers == InitHelpers /\ [][NextHelpers]_vars

(***************************************************************************)
(* gemini_client.poll_video_generation called from several request threads *)
(* at once for the same operation (app.run serves each request on a thread *)
(* of its own).  A thread is preempted between the steps below; each step  *)
(* reads or writes _video_operations at most once.  An API key is          *)
(* available, and the download and the save succeed.                       *)
(***************************************************************************)
MaxPollers == 2
MaxPolls == 4

PollThreads == 1..MaxPollers
PolledOperation == "operations/1"
PolledScene == "a1"

PollsCalled == Len(poll_answers) + Cardinality({t \in PollThreads : poll_pc[t] /= "idle"})

PollReturns(t, answer) ==
    /\ poll_answers' = Append(poll_answers, answer)
    /\ poll_pc' = [poll_pc EXCEPT ![t] = "idle"]

\* client = get_client(api_key); operation = _video_operations.get(name);
\* if not operation: return {"error": ...}
PollLookup(t) ==
    /\ poll_pc[t] = "idle"
    /\ PollsCalled < MaxPolls
    /\ IF ~HasClient("")
       THEN PollReturns(t, [status |-> "failed", error |-> "exception",
                            scene_id |-> PolledScene])
       ELSE IF PolledOperation \notin video_operations
       THEN PollReturns(t, [error |-> "Operation not found. Server may have restarted."])
       ELSE /\ poll_pc' = [poll_pc EXCEPT ![t] = "refresh"]
            /\ UNCHANGED poll_answers
    /\ UNCHANGED <<poll_op, veo_done>>
    /\ UNCHANGED <<nvars, pvars, svars, cvars, ivars>>

\* operation = client.operations.get(operation)
PollRefresh(t) ==
    /\ poll_pc[t] = "refresh"
    /\ poll_op' = [poll_op EXCEPT ![t] = veo_done]
    /\ poll_pc' = [poll_pc EXCEPT ![t] = "store"]
    /\ UNCHANGED <<poll_answers, veo_done>>
    /\ UNCHANGED <<nvars, pvars, svars, cvars, ivars>>

\* _video_operations[name] = operation; if not operation.done: return in_progress
PollStore(t) ==
    /\ poll_pc[t] = "store"
    /\ video_operations' = video_operations \cup {PolledOperation}
    /\ IF ~poll_op[t]
       THEN PollReturns(t, [status |-> "in_progress", scene_id |-> PolledScene])
       ELSE /\ poll_pc' = [poll_pc EXCEPT ![t] = "download"]
            /\ UNCHANGED poll_answers
    /\ UNCHANGED <<poll_op, veo_done>>
    /\ UNCHANGED <<user_docs, dossiers, env_key, tmp_dir, files, request, response, effects>>
    /\ UNCHANGED <<nvars, pvars, cvars, ivars>>

\* client.files.download(file=video.video); video.video.save(filepath)
PollDownload(t) ==
    /\ poll_pc[t] = "download"
    /\ files' = files \cup {SceneVideo(PolledScene)}
    /\ poll_pc' = [poll_pc EXCEPT ![t] = "cleanup"]
    /\ UNCHANGED <<poll_op, poll_answers, veo_done>>
    /\ UNCHANGED <<user_docs, dossiers, env_key, tmp_dir, video_operations, request,
                   response, effects>>
    /\ UNCHANGED <<nvars, pvars, cvars, ivars>>

\* del _video_operations[name]; return completed.  The del raises KeyError
\* when the name is not in the dict, and `except Exception` answers 'failed'.
PollCleanup(t) ==
    /\ poll_pc[t] = "cleanup"
    /\ IF PolledOperation \in video_operations
       THEN /\ video_operations' = video_operations \ {PolledOperation}
            /\ PollReturns(t, [status |-> "completed",
                               video_url |-> SceneVideo(PolledScene),
                               scene_id |-> PolledScene])
       ELSE /\ UNCHANGED video_operations
            /\ PollReturns(t, [status |-> "failed", error |-> "KeyError",
                               scene_id |-> PolledScene])
    /\ UNCHANGED <<poll_op, veo_done>>
    /\ UNCHANGED <<user_docs, dossiers, env_key, tmp_dir, files, request, response, effects>>
    /\ UNCHANGED <<nvars, pvars, cvars, ivars>>

\* the video service finishes the operation, with a video
OperationFinishes ==
    /\ ~veo_done
    /\ veo_done' = TRUE
    /\ UNCHANGED <<poll_pc, poll_op, poll_answers>>
    /\ UNCHANGED <<nvars, pvars, svars, cvars, ivars>>

\* the operation was started and is in the map; GEMINI_API_KEY is set
InitPolls ==
    /\ NIdle
    /\ PIdle
    /\ user_docs = [u \in Uids |-> ""]
    /\ dossiers = {}
    /\ env_key = "server-key"
    /\ tmp_dir = <<>>
    /\ files = {}
    /\ video_operations = {PolledOperation}
    /\ request = NoRequest
    /\ response = NoResponse
    /\ effects = {}
    /\ fn_call = [fn |-> ""]
    /\ fn_ret = NotReturned
    /\ started = {PolledOperation}
    /\ IIdle
    /\ poll_pc = [t \in PollThreads |-> "idle"]
    /\ poll_op = [t \in PollThreads |-> FALSE]
    /\ poll_answers = <<>>
    /\ veo_done = FALSE

NextPolls ==
    \/ \E t \in PollThreads : PollLookup(t)
    \/ \E t \in PollThreads : PollRefresh(t)
    \/ \E t \in PollThreads : PollStore(t)
    \/ \E t \in PollThreads : PollDownload(t)
    \/ \E t \in PollThreads : PollCleanup(t)
    \/ OperationFinishes

SpecPolls == InitPolls /\ [][NextPolls]_vars

(***************************************************************************)
(* Properties                                                              *)
(***************************************************************************)
ActLabel(beat) == Get(beat, "act", "Unknown")

RECURSIVE Flatten(_)
Flatten(ss) == IF ss = <<>> THEN <<>> ELSE Head(ss) \o Flatten(Tail(ss))

Places(beat) ==
    {<<k, i>> \in (DOMAIN batches) \X (1..BEATS_PER_BATCH + 1) :
        i \in DOMAIN batches[k] /\ batches[k][i].beat = beat.beat}

\* C1: in the batched path every batch is non-empty and holds at most 8
\* beats, the beats of one batch carry one act label, and every input beat
\* is in exactly one batch.
C1_BatchesPartitionBeats ==
    pc = "pool" =>
        /\ \A k \in DOMAIN batches :
              /\ Len(batches[k]) >= 1
              /\ Len(batches[k]) <= 8
              /\ \A i, j \in DOMAIN batches[k] :
                    ActLabel(batches[k][i]) = ActLabel(batches[k][j])
              /\ \A i \in DOMAIN batches[k] :
                    \E b \in DOMAIN beats : beats[b] = batches[k][i]
        /\ \A b \in DOMAIN beats : Cardinality(Places(beats[b])) = 1

\* a narration of more than eight beats of one label, some without the act key
C1_Witness ==
    /\ pc = "pool"
    /\ \E k \in DOMAIN batches : Len(batches[k]) = 8
    /\ \E k \in DOMAIN batches : \E i, j \in DOMAIN batches[k] :
          "act" \in DOMAIN batches[k][i] /\ "act" \notin DOMAIN batches[k][j]

\* C2: the beats of batch 1, batch 2, ... in batch-index order are the
\* input beats in their original order.
C2_BatchesInNarrationOrder ==
    pc = "pool" => Flatten(batches) = beats

\* the per-batch outcome that the reply recorded for batch i decides
Outcome(i) == process_batch(i, batches[i], Len(batches), replies[i])

Succeeded(i) == "error" \notin DOMAIN Outcome(i) /\ "raised" \notin DOMAIN Outcome(i)

RECURSIVE AscendingConcat(_, _)
AscendingConcat(field, i) ==
    IF i > Len(batches) THEN <<>>
    ELSE (IF Succeeded(i) THEN Outcome(i)[field] ELSE <<>>) \o AscendingConcat(field, i + 1)

\* C3: whatever the order of completion, shots, continuity_notes and
\* challenging_shots of the result are the successful batches' lists
\* concatenated in ascending batch index.
C3_MergeIgnoresCompletionOrder ==
    (pc = "done" /\ batches /= <<>>) =>
        IF AscendingConcat("shots", 1) = <<>>
        THEN "error" \in DOMAIN ret
        ELSE /\ "success" \in DOMAIN ret
             /\ ret.production_table.shots = AscendingConcat("shots", 1)
             /\ ret.production_table.continuity_notes
                    = AscendingConcat("continuity_notes", 1)
             /\ ret.production_table.production_notes.challenging_shots
                    = AscendingConcat("challenging_shots", 1)

\* two successful batches finished in the reverse of their index order
C3_Witness ==
    /\ pc = "done"
    /\ "success" \in DOMAIN ret
    /\ \E k \in DOMAIN batch_results : \E l \in DOMAIN batch_results :
          /\ k < l
          /\ batch_results[k].key > batch_results[l].key
          /\ "shots" \in DOMAIN batch_results[k].value
          /\ "shots" \in DOMAIN batch_results[l].value
          /\ batch_results[k].value.shots /= <<>>
          /\ batch_results[l].value.shots /= <<>>

\* a reply that is not empty, not an "Error:" sentinel, and does not parse
FailsToParse(raw) ==
    /\ raw /= <<>>
    /\ ~StartsWith(raw, "err")
    /\ ~_parse_json_response(raw, [x |-> 1], <<>>).ok

\* C4: a reply that is non-empty, no "Error:" sentinel and fails to parse
\* makes generate_production_table return success carrying the unmodified
\* reply as raw_text with a parse_error, in the single-call and in the
\* batched path.
C4_RawTextPassthrough ==
    pc = "done" =>
        \A i \in DOMAIN replies :
            FailsToParse(replies[i]) =>
                /\ "success" \in DOMAIN ret
                /\ "raw_text" \in DOMAIN ret.production_table
                /\ "parse_error" \in DOMAIN ret.production_table
                /\ ret.production_table.raw_text = replies[i]

NarrationReturned == "pending" \notin DOMAIN narr_ret /\ "idle" \notin DOMAIN narr_ret

\* C5: generate_narration returns 'error' and no 'success' exactly when the
\* reply is empty or starts with "Error:"; otherwise success, with the
\* parsed JSON when the reply parses and else with the topic as title, the
\* unmodified reply as raw_text and a parse_error.
C5_NarrationErrorOrFallback ==
    NarrationReturned =>
        LET sentinel == raw_response = <<>> \/ raw_response[1] = "err"
            parsed == _parse_json_response(raw_response, NarrationObject, NarrationArray)
        IN  /\ "raised" \notin DOMAIN narr_ret
            /\ ("error" \in DOMAIN narr_ret) <=> sentinel
            /\ ("success" \in DOMAIN narr_ret) <=> ~sentinel
            /\ ~sentinel =>
                 /\ narr_ret.success = TRUE
                 /\ IF parsed.ok
                    THEN IF parsed.isdict
                         THEN narr_ret.narration = NarrationObject
                         ELSE narr_ret.narration = NarrationArray
                    ELSE /\ DOMAIN narr_ret.narration = {"title", "raw_text", "parse_error"}
                         /\ narr_ret.narration.title = topic
                         /\ narr_ret.narration.raw_text = raw_response

\* a reply whose second line starts with "Error:" and that does not parse
C5_Witness ==
    /\ NarrationReturned
    /\ "success" \in DOMAIN narr_ret
    /\ Len(raw_response) >= 2
    /\ raw_response[2] = "err"
    /\ ~_parse_json_response(raw_response, NarrationObject, NarrationArray).ok
    /\ narr_ret.narration.raw_text = raw_response

\* C6: at most 3 batch calls are in flight at any moment; a batch starts
\* only while fewer than 3 are running; and the function returns only after
\* every submitted batch has finished.
C6_BoundedFanOutFanIn ==
    /\ [](Cardinality(Running) <= 3)
    /\ [][\A i \in DOMAIN status :
            (status[i] = "queued" /\ status'[i] = "running")
                => Cardinality(Running) < 3]_vars
    /\ []((pc = "done" /\ batches /= <<>>) =>
            /\ \A i \in DOMAIN status : status[i] = "done"
            /\ Len(status) = Len(batches))

\* three batches running, a fourth waiting for a free thread
C6_Witness ==
    /\ pc = "pool"
    /\ Cardinality(Running) = 3
    /\ Queued /= {}

\* C7: a narration of more than 8 beats is processed in batches, one of 8
\* beats or fewer in a single call.
C7_BatchedAboveEightBeats ==
    pc \in {"single", "pool"} => (pc = "pool" <=> Len(beats) > 8)

\* a request whose Authorization header does not start with "Bearer " or
\* whose token fails verification
Unauthenticated(req) ==
    \/ Len(req.auth) = 0
    \/ req.auth[1] /= "Bearer "
    \/ Len(req.auth) < 2
    \/ req.auth[2] \notin {"tok-u1", "tok-u2"}

\* C8: a request to any /api route whose Authorization header does not
\* start with "Bearer " or whose token fails verification is answered 401
\* and the handler body is not run: no model call, no Firestore write, no
\* file write, and the operations map is unchanged.
C8_UnauthenticatedIsRejected ==
    [][(request' /= NoRequest /\ Unauthenticated(request')) =>
          /\ response'.code = 401
          /\ effects' = {}
          /\ UNCHANGED <<user_docs, dossiers, tmp_dir, files, video_operations>>]_vars

\* a poll with an expired token of an operation that is pending and finished
C8_Witness ==
    /\ request.route = "/api/visuals/poll-animation"
    /\ request.auth = <<"Bearer ", "expired">>
    /\ request.arg = "a1"
    /\ request.ext = "ok"
    /\ OperationName("a1") \in video_operations
    /\ response.code = 401

\* the stored state of a server that has handled no request: what Firestore
\* holds is the external service's, what the server keeps is empty
Fresh(S) == [S EXCEPT !.tmp = <<>>, !.files = {}, !.ops = {}]

AnswerOf(out) == [code |-> out.code, body |-> out.body]

\* C9 as stated: the response to a request to any /api endpoint is the one
\* a server that has handled no earlier request gives to it.
C9_EveryEndpointStateless ==
    [][request' /= NoRequest =>
          response' = AnswerOf(Dispatch(request', request'.ext, Fresh(Stored)))]_vars

\* the endpoints that answer from what earlier requests left on the server
StatefulRoutes ==
    {"/api/latest-production-table", "/api/visuals/start-animation",
     "/api/visuals/start-batch-animation", "/api/visuals/poll-animation",
     "/api/visuals/download-all"}

\* C9 amended: the response of every /api endpoint other than
\* latest-production-table, visuals/start-animation,
\* visuals/start-batch-animation, visuals/poll-animation and
\* visuals/download-all is the one a server that has handled no earlier
\* request gives to the same request.
C9_StatelessExceptStoredFilesAndOperations ==
    [][(request' /= NoRequest /\ request'.route \notin StatefulRoutes) =>
          response' = AnswerOf(Dispatch(request', request'.ext, Fresh(Stored)))]_vars

\* an image is generated for a scene whose image, and a pending operation,
\* earlier requests left behind
C9_Witness ==
    /\ request.route = "/api/visuals/generate-image"
    /\ request.arg = "a1"
    /\ response.code = 200
    /\ tmp_dir /= <<>>
    /\ video_operations /= {}
    /\ SceneVideo("a1") \in files

\* C10: check-api-key answers has_key = TRUE exactly when the authenticated
\* user has a key saved in their own user document.
C10_HasKeyIffUserSavedKey ==
    (request.route = "/api/check-api-key" /\ response.code = 200) =>
        (response.body.has_key <=> user_docs[verify_id_token(request.auth[2]).uid] /= "")

(***************************************************************************)
(* The library functions                                                   *)
(***************************************************************************)
NotFound(res) == "error" \in DOMAIN res /\ "status" \notin DOMAIN res

\* one call of start_video_generation or poll_video_generation, seen from the
\* operations map; keyed says whether the answer to a poll of a name that is
\* not in the map is looked at only for polls that have an API key
OperationsStep(keyed) ==
    LET c == fn_call'
        ops == video_operations
        ops2 == video_operations'
    IN  /\ ops2 \subseteq started'
        /\ (started \ ops) \subseteq (started' \ ops2)
        /\ c.fn = "start_video_generation" =>
              IF "operation_name" \in DOMAIN fn_ret'.returns
              THEN /\ fn_ret'.returns.operation_name \notin ops
                   /\ ops2 = ops \cup {fn_ret'.returns.operation_name}
              ELSE ops2 = ops
        /\ c.fn = "poll_video_generation" =>
              LET res == fn_ret'.returns
                  n == c.operation_name
                  st == Get(res, "status", "")
              IN  /\ st \in {"", "in_progress", "completed", "failed"}
                  /\ st = "in_progress" => n \in ops /\ ops2 = ops
                  /\ st = "completed" => n \in ops /\ ops2 = ops \ {n}
                  /\ (st = "failed" /\ res.error = "no video was returned") =>
                        n \in ops /\ ops2 = ops \ {n}
                  /\ (st = "failed" /\ res.error = "exception") => ops2 = ops
                  /\ NotFound(res) => n \notin ops /\ ops2 = ops
                  /\ (n \notin ops /\ (keyed => HasClient(c.api_key))) => NotFound(res)
        /\ c.fn \notin {"start_video_generation", "poll_video_generation"} => ops2 = ops

\* C11 (as stated): the operations map holds a name exactly while its job is
\* pending -- a successful start inserts it, a poll answering in_progress or
\* failing with an exception keeps it, a poll answering completed or failed
\* for lack of a video removes it -- and every poll of a name that is not in
\* the map (one removed earlier included) answers "not found".
C11_OperationsHeldWhilePending == [][OperationsStep(FALSE)]_vars

\* C11 (amended): the same, the "not found" answer being that of every poll
\* made with an API key available (the caller's or the environment's); a poll
\* without any key answers "failed" before the map is looked at.
C11_OperationsHeldWhilePendingKeyed == [][OperationsStep(TRUE)]_vars

\* a name that a poll removed earlier is polled again, with a key, and the
\* answer is "not found"
C11_Witness ==
    /\ fn_call.fn = "poll_video_generation"
    /\ fn_call.operation_name \in started \ video_operations
    /\ HasClient(fn_call.api_key)
    /\ NotFound(fn_ret.returns)

\* C12: generate_content never raises; it returns the reply text when a client
\* could be made and the SDK answered with a text, and a string that begins
\* with "Error:" for every other outcome (no key, an exception, no text).
C12_GenerateContentNeverRaises ==
    fn_call.fn = "generate_content" =>
        /\ "returns" \in DOMAIN fn_ret
        /\ IF HasClient(fn_call.api_key) /\ "text" \in DOMAIN fn_call.reply
           THEN fn_ret.returns = fn_call.reply.text
           ELSE StartsWith(fn_ret.returns, "err")

\* generate_content was called with no key anywhere and returned an error string
C12_Witness ==
    /\ fn_call.fn = "generate_content"
    /\ ~HasClient(fn_call.api_key)
    /\ "text" \in DOMAIN fn_call.reply
    /\ "returns" \in DOMAIN fn_ret
    /\ StartsWith(fn_ret.returns, "err")

\* C13: generate_tts returns, for every outcome (no API key from the caller or
\* the environment included), the path of the saved WAV file or a string that
\* begins with "Error"; it does not raise.
C13_GenerateTtsPathOrError ==
    fn_call.fn = "generate_tts" =>
        /\ "returns" \in DOMAIN fn_ret
        /\ \/ fn_ret.returns = <<TtsPath>> /\ TtsPath \in files
           \/ StartsWith(fn_ret.returns, "err")

\* C17: generate_image_content calls the Gemini image model first and the
\* Imagen model only when the first attempt raised or gave no image; it
\* returns the path of the first attempt that gave an image, and an "Error:"
\* string only when neither attempt gave one.
C17_ImagenOnlyAfterGeminiFailed ==
    (fn_call.fn = "generate_image_content" /\ "returns" \in DOMAIN fn_ret) =>
        LET m == fn_call.models
            a1 == fn_call.attempt1
            a2 == fn_call.attempt2
        IN  /\ Len(m) \in {1, 2}
            /\ m[1] = GeminiImageModel
            /\ Len(m) = 2 <=> a1 /= "image"
            /\ Len(m) = 2 => m[2] = ImagenModel
            /\ a1 = "image" =>
                  fn_ret.returns = <<GeminiImagePath>> /\ GeminiImagePath \in files
            /\ (a1 /= "image" /\ a2 = "image") =>
                  fn_ret.returns = <<ImagenPath>> /\ ImagenPath \in files
            /\ StartsWith(fn_ret.returns, "err") <=> (a1 /= "image" /\ a2 /= "image")

\* the first attempt raised, the second gave an image, and its path came back
C17_Witness ==
    /\ fn_call.fn = "generate_image_content"
    /\ fn_call.attempt1 = "raise"
    /\ fn_call.attempt2 = "image"
    /\ fn_call.models = <<GeminiImageModel, ImagenModel>>
    /\ fn_ret = Return(<<ImagenPath>>)

\* the analysis questions of a template
AnalysisQuestions(template) == template.research_config.analysis_questions

\* C14: for every template id that get_all_templates_metadata lists,
\* get_template returns that template, build_research_queries returns one
\* string per search layer in layer order (the layer's query with the topic
\* put in), and every analysis question is a string; for an id that is not
\* defined build_research_queries returns [topic].
C14_OneQueryPerSearchLayer ==
    /\ \A i \in DOMAIN get_all_templates_metadata :
          LET meta == get_all_templates_metadata[i]
              template == get_template(meta.id)
          IN  /\ template /= None
              /\ template = TEMPLATES[i].value
              /\ template.metadata.name = meta.name
              /\ \A j \in DOMAIN AnalysisQuestions(template) :
                    AnalysisQuestions(template)[j].type = "str"
    /\ fn_call.fn = "build_research_queries" =>
          LET queries == fn_ret.returns
              t == fn_call.of_topic
              listed == \E i \in DOMAIN get_all_templates_metadata :
                            get_all_templates_metadata[i].id = fn_call.template_id
          IN  IF listed
              THEN LET layers ==
                          get_template(fn_call.template_id).research_config.search_layers
                   IN  /\ Len(queries) = Len(layers)
                       /\ \A j \in DOMAIN layers :
                             /\ queries[j].type = "str"
                             /\ queries[j].value =
                                   t.value \o layers[j].query_template[2]
              ELSE queries = <<t>>

\* the queries of a listed template were built for a topic that itself holds
\* a replacement field
C14_Witness ==
    /\ fn_call.fn = "build_research_queries"
    /\ fn_call.template_id = "product_tech_review"
    /\ fn_call.of_topic = Str("{topic}")
    /\ Len(fn_ret.returns) = 4

\* C15: poll_deep_research always returns a dict whose status is in_progress,
\* completed or failed; it has a result exactly when completed and an error
\* exactly when failed; an interaction status other than completed and failed
\* gives in_progress; an exception while polling gives failed.
C15_PollStatusIsOneOfThree ==
    fn_call.fn = "poll_deep_research" =>
        /\ "returns" \in DOMAIN fn_ret
        /\ LET r == fn_ret.returns
               sdk == fn_call.interaction
               polled == HasClient(fn_call.api_key) /\ "status" \in DOMAIN sdk
           IN  /\ "status" \in DOMAIN r
               /\ r.status \in {"in_progress", "completed", "failed"}
               /\ "result" \in DOMAIN r <=> r.status = "completed"
               /\ "error" \in DOMAIN r <=> r.status = "failed"
               /\ (polled /\ sdk.status \notin {"completed", "failed"}) =>
                     r.status = "in_progress"
               /\ (polled /\ sdk.status \in {"completed", "failed"}) =>
                     r.status = sdk.status
               /\ ~polled => r.status = "failed"

\* an interaction that was cancelled is reported as in progress
C15_Witness ==
    /\ fn_call.fn = "poll_deep_research"
    /\ HasClient(fn_call.api_key)
    /\ "status" \in DOMAIN fn_call.interaction
    /\ fn_call.interaction.status = "cancelled"
    /\ fn_ret = Return([status |-> "in_progress"])

\* the batches whose call gave an error or raised
FailedBatches == {i \in DOMAIN status : status[i] = "done" /\ ~Succeeded(i)}

\* C16: there is no retry in the batched path -- each batch is sent to the
\* model exactly once (the number of model calls is the number of finished
\* batches and, at the return, the number of batches), a batch that finished
\* is never queued or run again and keeps the reply it got, a failed batch
\* is recorded with an error, and every other batch still runs and is
\* recorded.
C16_NoRetryInBatchedPath ==
    /\ [](pc = "pool" =>
            model_calls = Cardinality({i \in DOMAIN status : status[i] = "done"}))
    /\ [][\A i \in DOMAIN status :
            /\ status[i] = "done" =>
                  status'[i] = "done" /\ replies'[i] = replies[i]
            /\ status[i] = "running" => status'[i] /= "queued"]_vars
    /\ []((pc = "done" /\ batches /= <<>>) =>
            /\ model_calls = Len(batches)
            /\ Len(batch_results) = Len(batches)
            /\ \A i \in DOMAIN batches :
                  /\ replies[i] /= NotCalled
                  /\ \E k \in DOMAIN batch_results : batch_results[k].key = i
                  /\ "error" \in DOMAIN DictGet(batch_results, i) <=> i \in FailedBatches)

\* the call returned after four batches of which one failed and three did not
C16_Witness ==
    /\ pc = "done"
    /\ Len(batches) = 4
    /\ model_calls = 4
    /\ Cardinality(FailedBatches) = 1

\* a reply from which a table with shots is read: not empty, no "Error:"
\* sentinel, and (fence removed) a JSON object
ParsesToObject(raw) ==
    /\ raw /= <<>>
    /\ ~StartsWith(raw, "err")
    /\ LET parsed == _parse_json_response(raw, [x |-> 1], <<>>)
       IN  parsed.ok /\ parsed.isdict

\* the batches that contributed shots, and the beats they were given
Contributing == {i \in DOMAIN batches : ParsesToObject(replies[i])}
BeatsOf(S) == UNION {{batches[i][k].beat : k \in DOMAIN batches[i]} : i \in S}

\* C18: in the batched path the error "All batches failed to produce shots."
\* is returned exactly when no batch contributed a shot; otherwise the
\* result is a success whose total_shots is the length of its shots list,
\* which holds every shot of every successful batch and none of a failed one.
C18_AllFailedIffNoShots ==
    (pc = "done" /\ batches /= <<>>) =>
        IF Contributing = {}
        THEN ret = [error |-> AllFailedMsg]
        ELSE /\ "success" \in DOMAIN ret
             /\ "error" \notin DOMAIN ret
             /\ LET pt == ret.production_table
                    shot_beats == {pt.shots[k].shot_of_beat : k \in DOMAIN pt.shots}
                IN  /\ pt.total_shots = Len(pt.shots)
                    /\ shot_beats = BeatsOf(Contributing)
                    /\ Cardinality(shot_beats) = Len(pt.shots)
                    /\ shot_beats \cap BeatsOf(DOMAIN batches \ Contributing) = {}

\* a success returned although some batch failed: the table holds the shots
\* of the others only
C18_Witness ==
    /\ pc = "done"
    /\ batches /= <<>>
    /\ "success" \in DOMAIN ret
    /\ Contributing /= {}
    /\ Contributing /= DOMAIN batches
    /\ ret.production_table.total_shots < Len(beats)

\* the indices (from 0) of the beats of a narration whose act is the given one
BeatsOfAct(full_narration, act) ==
    {i \in 0..(Len(full_narration.narration) - 1) :
        /\ "act" \in DOMAIN full_narration.narration[i + 1]
        /\ full_narration.narration[i + 1].act = act}

\* C19: when target_act is given, the beats regenerate_beats asks for are
\* exactly the beats whose act is target_act, whatever target_beat_indices
\* holds; when the resolved targets are empty (no indices, or no beat of that
\* act) it returns an error dict and makes no model call.
C19_TargetActOverridesIndices ==
    fn_call.fn = "regenerate_beats" =>
        LET n == fn_call.full_narration
            act == fn_call.target_act
            resolved == IF act /= "" THEN BeatsOfAct(n, act)
                        ELSE Range(fn_call.target_beat_indices)
            prompt == fn_call.prompt
        IN  /\ (act /= "" /\ resolved /= {}) =>
                  /\ ~PromptStartsWithError(prompt)
                  /\ {prompt.target_text[j].index : j \in DOMAIN prompt.target_text}
                        = BeatsOfAct(n, act)
                  /\ Len(prompt.target_text) = Cardinality(BeatsOfAct(n, act))
                  /\ prompt.beats_asked = Cardinality(BeatsOfAct(n, act))
                  /\ \A j \in DOMAIN prompt.target_text :
                        prompt.target_text[j].beat = n.narration[prompt.target_text[j].index + 1]
            /\ act /= "" =>
                  regenerate_beats(n, act, fn_call.target_beat_indices,
                                   fn_call.api_key, fn_call.reply).out
                     = regenerate_beats(n, act, <<>>, fn_call.api_key, fn_call.reply).out
            /\ resolved = {} =>
                  /\ "error" \in DOMAIN fn_ret.returns
                  /\ "success" \notin DOMAIN fn_ret.returns
                  /\ fn_call.model_calls = 0

\* an act was given together with indices of other beats, and the prompt asks
\* for the act's three beats only
C19_Witness ==
    /\ fn_call.fn = "regenerate_beats"
    /\ fn_call.target_act = "Act 1"
    /\ fn_call.target_beat_indices = <<3, 2>>
    /\ ~PromptStartsWithError(fn_call.prompt)
    /\ Len(fn_call.prompt.target_text) = 3
    /\ fn_call.model_calls = 1
    /\ "success" \in DOMAIN fn_ret.returns

\* the results of a batch, had the generations completed in the order in
\* which the scenes were submitted
ResultsInSubmissionOrder ==
    [i \in DOMAIN scenes |->
        generate_scene_image(scenes[i].scene_id, "user-key", img_ext[i], Stored).result]

\* C20: the batch returns one result per submitted scene, never more than 5
\* generations run at once, and the order of the results list is fixed by
\* the scenes (and what generating each gave) alone: it is the order the list
\* has when the generations complete in submission order.
C20_BatchImageResultsOrder ==
    /\ Cardinality(ImagesRunning) <= 5
    /\ (img_pc = "done" /\ scenes /= <<>>) =>
          /\ Len(img_ret.body.results) = Len(scenes)
          /\ img_ret.body.results = SortByKey(ResultsInSubmissionOrder)

\* the proxies YOUTUBE_PROXY_URL lists: its entries that are not blank
ConfiguredProxies(proxy_env) ==
    SelectSeq([i \in DOMAIN proxy_env |-> strip(proxy_env[i])], LAMBDA p : p /= "")

IsPrefix(a, b) == Len(a) <= Len(b) /\ a = SubSeq(b, 1, Len(a))

\* C21: get_transcript tries the configured proxies in their listed order,
\* or one direct connection when no proxy is configured, one attempt each; it
\* stops at the first fetch that succeeds and returns the error only after
\* every configuration has failed; a URL without a video id returns
\* 'Invalid YouTube URL' and nothing is fetched.
C21_TranscriptTriesProxiesInOrder ==
    fn_call.fn = "get_transcript" =>
        LET listed == ConfiguredProxies(fn_call.proxy_env)
            expected == IF listed = <<>> THEN <<Direct>> ELSE listed
            tried == fn_call.attempts
            out == fn_ret.returns
        IN  IF extract_youtube_id(fn_call.video_url) = ""
            THEN out = [error |-> InvalidYouTubeUrl] /\ tried = <<>>
            ELSE /\ IsPrefix(tried, expected)
                 /\ \A i \in 1..(Len(tried) - 1) : tried[i] \in fn_call.blocked
                 /\ "text" \in DOMAIN out =>
                       tried /= <<>> /\ tried[Len(tried)] \notin fn_call.blocked
                 /\ "error" \in DOMAIN out =>
                       /\ tried = expected
                       /\ \A i \in DOMAIN tried : tried[i] \in fn_call.blocked

\* a style analysis returned a dict, not an "Error: ..." string
StyleDictReturned ==
    /\ fn_call.fn \in {"analyze_style_from_images", "analyze_style_from_text"}
    /\ "error_text" \notin DOMAIN fn_ret.returns

\* C22: every dict analyze_style_from_images or analyze_style_from_text returns
\* has a prompt_schema whose always_include holds shot_size, subject,
\* arrangement and background, whatever the model's JSON said about a schema.
C22_LockedFieldsAlwaysIncluded ==
    StyleDictReturned =>
        /\ "prompt_schema" \in DOMAIN fn_ret.returns
        /\ "always_include" \in DOMAIN fn_ret.returns.prompt_schema
        /\ {"shot_size", "subject", "arrangement", "background"}
              \subseteq Range(fn_ret.returns.prompt_schema.always_include)

\* the model's schema listed subject and mood only, and the dict came back
\* with the other locked fields appended after them
C22_Witness ==
    /\ StyleDictReturned
    /\ "json" \in DOMAIN fn_call.reply
    /\ "prompt_schema" \in DOMAIN fn_call.reply.json
    /\ Get(fn_call.reply.json.prompt_schema, "always_include", <<>>) = <<"subject", "mood">>
    /\ fn_ret.returns.prompt_schema.always_include =
          <<"subject", "mood", "shot_size", "arrangement", "background">>

\* the field's entry is in one of the two frame templates or in the guide of
\* active fields of the instructions returned
FieldAppears(field) ==
    \/ FirstFrameLine(field) \in Range(fn_ret.returns.first_frame_template)
    \/ LastFrameLine(field) \in Range(fn_ret.returns.last_frame_template)
    \/ FieldGuideLine(field) \in Range(fn_ret.returns.field_guide)

\* the instructions hold a field's entry only if the schema has the field in
\* always_include or include
OnlyActiveFieldsAppear ==
    fn_call.fn = "_build_prompt_format_instructions" =>
        \A f \in DOMAIN _FIELD_TO_PROMPT :
            FieldAppears(f) =>
                f \in Range(Get(fn_call.schema, "always_include", <<>>))
                      \cup Range(Get(fn_call.schema, "include", <<>>))

\* C23: for every schema, the first-frame and last-frame templates and the
\* guide of active fields hold a field's entry only if the field is in
\* always_include or include, and hold no entry of a field listed in exclude.
C23_OnlyActiveFieldsNoExcluded ==
    fn_call.fn = "_build_prompt_format_instructions" =>
        /\ OnlyActiveFieldsAppear
        /\ \A f \in DOMAIN _FIELD_TO_PROMPT :
              f \in Range(Get(fn_call.schema, "exclude", <<>>)) => ~FieldAppears(f)

\* C24: whatever the interleaving of concurrent polls of one operation that
\* finishes with a video, no poll answers status 'failed' (each answers
\* 'in_progress', 'completed' or the 'not found' error) and at most one poll
\* answers 'completed'.
C24_ConcurrentPollsNeverFail ==
    /\ \A i \in DOMAIN poll_answers :
          \/ NotFound(poll_answers[i])
          \/ poll_answers[i].status \in {"in_progress", "completed"}
    /\ Cardinality({i \in DOMAIN poll_answers :
                       ~NotFound(poll_answers[i]) /\ poll_answers[i].status = "completed"}) <= 1

====
